---- MODULE Spec2Model ----
(***************************************************************************)
(* Model of the hospital chatbot (src/chat Bot/python hospital_chatbot.py) *)
(* One interactive session against a document store: the main loop of      *)
(* start(), login/logout/exit, the phrase router process_command and the   *)
(* cmd_* workflow executors, with the identifiers kept as the strings the  *)
(* program formats, slices, parses and sorts.                              *)
(***************************************************************************)
EXTENDS Integers, Sequences, FiniteSets, TLC

VARIABLES current_user, user_type, db, running, now, writes, last, peer

vars == <<current_user, user_type, db, running, now, writes, last, peer>>

(***************************************************************************)
(* Bounds of the model.                                                    *)
(***************************************************************************)
\* total number of documents one run may insert
MaxWrites == 2
\* last day the clock may reach
MaxDay == 1
\* most patients of a store drawn for the reports
MaxReportDocs == 3

(***************************************************************************)
(* Python string primitives, computed character by character.              *)
(***************************************************************************)
LowerAlpha == "abcdefghijklmnopqrstuvwxyz"
UpperAlpha == "ABCDEFGHIJKLMNOPQRSTUVWXYZ"
Digits == "0123456789"
\* the characters the model uses, in code point order
Ascii == " '0123456789ABCDEFGHIJKLMNOPQRSTUVWXYZ_abcdefghijklmnopqrstuvwxyz"

Char(s, i) == SubSeq(s, i, i)

\* the one-character strings of a string
CharsOf(s) == {Char(s, i) : i \in 1..Len(s)}

\* index of the one-character string c in s, 0 when absent
IndexOf(c, s) ==
    LET hits == {i \in 1..Len(s) : Char(s, i) = c}
    IN  IF hits = {} THEN 0 ELSE CHOOSE i \in hits : \A j \in hits : i <= j

IsAlpha(c) == c \in CharsOf(LowerAlpha) \cup CharsOf(UpperAlpha)

\* the upper-case letter of each lower-case letter, and the converse
ToUpper == [c \in CharsOf(LowerAlpha) |-> Char(UpperAlpha, IndexOf(c, LowerAlpha))]
ToLower == [c \in CharsOf(UpperAlpha) |-> Char(LowerAlpha, IndexOf(c, UpperAlpha))]

\* the value of each decimal digit, and the code point rank of each character
DigitValue == [c \in CharsOf(Digits) |-> IndexOf(c, Digits) - 1]
CodePoint == [c \in CharsOf(Ascii) |-> IndexOf(c, Ascii)]

UpperChar(c) == IF c \in DOMAIN ToUpper THEN ToUpper[c] ELSE c

LowerChar(c) == IF c \in DOMAIN ToLower THEN ToLower[c] ELSE c

RECURSIVE Upper(_)
\* str.upper()
Upper(s) == IF s = "" THEN "" ELSE UpperChar(Char(s, 1)) \o Upper(SubSeq(s, 2, Len(s)))

RECURSIVE Lower(_)
\* str.lower()
Lower(s) == IF s = "" THEN "" ELSE LowerChar(Char(s, 1)) \o Lower(SubSeq(s, 2, Len(s)))

RECURSIVE TitleFrom(_, _)
\* str.title() from a position: a letter after a non-letter is upper-cased,
\* a letter after a letter is lower-cased
TitleFrom(s, afterLetter) ==
    IF s = "" THEN ""
    ELSE LET c == Char(s, 1)
         IN  (IF afterLetter THEN LowerChar(c) ELSE UpperChar(c))
                 \o TitleFrom(SubSeq(s, 2, Len(s)), IsAlpha(c))

\* str.title()
Title(s) == TitleFrom(s, FALSE)

\* str.capitalize()
Capitalize(s) ==
    IF s = "" THEN "" ELSE UpperChar(Char(s, 1)) \o Lower(SubSeq(s, 2, Len(s)))

\* str.strip()
Strip(s) ==
    LET solid == {i \in 1..Len(s) : Char(s, i) # " "}
    IN  IF solid = {} THEN ""
        ELSE SubSeq(s, CHOOSE i \in solid : \A j \in solid : i <= j,
                       CHOOSE i \in solid : \A j \in solid : i >= j)

\* str.startswith(p)
StartsWith(s, p) == Len(s) >= Len(p) /\ SubSeq(s, 1, Len(p)) = p

\* p in s, for strings
Contains(s, p) == \E i \in 1..(Len(s) - Len(p) + 1) : SubSeq(s, i, i + Len(p) - 1) = p

\* s[n:]
SliceFrom(s, n) == SubSeq(s, n + 1, Len(s))

\* s[:n]
SliceTo(s, n) == SubSeq(s, 1, IF n < Len(s) THEN n ELSE Len(s))

\* str.isdigit()
IsDigit(s) == s # "" /\ \A i \in 1..Len(s) : Char(s, i) \in DOMAIN DigitValue

RECURSIVE IntAcc(_, _)
IntAcc(s, acc) ==
    IF s = "" THEN acc
    ELSE IntAcc(SubSeq(s, 2, Len(s)), 10 * acc + DigitValue[Char(s, 1)])

\* int(s) of a string of decimal digits
ParseInt(s) == IntAcc(s, 0)

RECURSIVE DecStr(_)
\* the decimal digits of a natural number
DecStr(n) ==
    IF n < 10 THEN Char(Digits, n + 1)
    ELSE DecStr(n \div 10) \o Char(Digits, (n % 10) + 1)

RECURSIVE PadLeft(_, _)
PadLeft(s, w) == IF Len(s) >= w THEN s ELSE PadLeft("0" \o s, w)

\* f"{n:0wd}": at least w digits, zero-padded, never truncated
ZeroPad(n, w) == PadLeft(DecStr(n), w)

RECURSIVE StrLess(_, _)
\* a < b in the store's string order (code point by code point, a proper
\* prefix first)
StrLess(a, b) ==
    IF b = "" THEN FALSE
    ELSE IF a = "" THEN TRUE
    ELSE LET x == CodePoint[Char(a, 1)]
             y == CodePoint[Char(b, 1)]
         IN  IF x # y THEN x < y
             ELSE StrLess(SubSeq(a, 2, Len(a)), SubSeq(b, 2, Len(b)))

(***************************************************************************)
(* The phrase tables of setup_commands and setup_responses, in declaration *)
(* order.                                                                  *)
(***************************************************************************)
commands ==
    [common |-> <<
        [cmd |-> "help",   phrases |-> <<"help", "commands", "what can you do">>],
        [cmd |-> "login",  phrases |-> <<"login", "sign in">>],
        [cmd |-> "logout", phrases |-> <<"logout", "sign out">>],
        [cmd |-> "exit",   phrases |-> <<"exit", "quit", "goodbye">>] >>,
     doctor |-> <<
        [cmd |-> "search_patient",
         phrases |-> <<"find patient", "search patient", "lookup patient">>],
        [cmd |-> "patient_details",
         phrases |-> <<"patient details", "get patient info">>],
        [cmd |-> "admission_history",
         phrases |-> <<"admission history", "patient admissions">>],
        [cmd |-> "create_prescription",
         phrases |-> <<"new prescription", "prescribe medication">>],
        [cmd |-> "view_schedule",
         phrases |-> <<"my schedule", "today's appointments">>],
        [cmd |-> "add_note", phrases |-> <<"add note", "write note">>] >>,
     nurse |-> <<
        [cmd |-> "medication_list",
         phrases |-> <<"medication list", "todays medications">>],
        [cmd |-> "record_administration",
         phrases |-> <<"record medication", "give medication">>],
        [cmd |-> "patient_vitals",
         phrases |-> <<"record vitals", "patient vitals">>],
        [cmd |-> "view_applications",
         phrases |-> <<"view tests", "test applications">>] >>,
     admin |-> <<
        [cmd |-> "add_staff", phrases |-> <<"add staff", "new staff">>],
        [cmd |-> "generate_report",
         phrases |-> <<"generate report", "create report">>] >>]

responses ==
    [greetings |-> <<"hello", "hi", "hey", "good morning", "good afternoon">>,
     farewells |-> <<"bye", "goodbye", "see you", "exit", "quit">>,
     thanks    |-> <<"thank you", "thanks", "appreciate">>,
     apologies |-> <<"sorry", "apologize", "my bad">>]

Roles == {"doctor", "nurse", "admin"}

\* the value of user_type before any login: Python's None
NoType == "None"

\* Python's None where a document or the logged-in user is expected
None == [none |-> TRUE]

\* any(phrase in text for phrase in phrases)
AnyPhraseIn(phrases, text) == \E i \in 1..Len(phrases) : Contains(text, phrases[i])

\* check_response_type(text, response_type)
check_response_type(text, response_type) ==
    AnyPhraseIn(responses[response_type], text)

\* self.commands.get(user_type, {}): the role's table, empty for an unknown role
TableOf(ut) == IF ut \in DOMAIN commands THEN commands[ut] ELSE <<>>

\* the first command of a table, in declaration order, one of whose phrases
\* occurs in the text; "" when none does
FirstMatch(table, text) ==
    LET hits == {i \in 1..Len(table) : AnyPhraseIn(table[i].phrases, text)}
    IN  IF hits = {} THEN ""
        ELSE table[CHOOSE i \in hits : \A j \in hits : i <= j].cmd

\* the methods cmd_<name> that HospitalChatbot defines
Executors ==
    {"search_patient", "patient_details", "admission_history",
     "create_prescription", "view_schedule", "add_note",
     "medication_list", "record_administration", "patient_vitals",
     "view_applications", "add_staff", "generate_report"}

\* a router that searches the tables of all roles, whoever is logged in
MatchCommand_all_roles(text, logged_in, ut) ==
    LET c == FirstMatch(commands.common \o commands.doctor \o commands.nurse
                        \o commands.admin, text)
    IN  IF logged_in THEN c ELSE FirstMatch(commands.common, text)

\* the command process_command looks up with getattr: the common table first,
\* then the table of the stored role when a user is logged in; "" for no match
MatchCommand(text, logged_in, ut) ==
    LET c == FirstMatch(commands.common, text)
    IN  IF c # "" THEN c
        ELSE IF logged_in THEN FirstMatch(TableOf(ut), text)
        ELSE ""

\* the branch the loop body of start() takes for a raw input line
StartBranch(raw, logged_in) ==
    LET user_input == Lower(Strip(raw))
    IN  IF user_input = "" THEN "empty"
        ELSE IF check_response_type(user_input, "farewells") THEN "farewell"
        ELSE IF check_response_type(user_input, "greetings") THEN "greeting"
        ELSE IF check_response_type(user_input, "thanks") THEN "thanks"
        ELSE IF check_response_type(user_input, "apologies") THEN "apology"
        ELSE IF Contains(user_input, "help") THEN "help"
        ELSE IF Contains(user_input, "login") THEN "login"
        ELSE IF Contains(user_input, "logout") THEN "logout"
        ELSE IF ~logged_in THEN "prompt_login"
        ELSE "process"

\* verify_role that only asks whether somebody is logged in
verify_role_any_user(cu, ut, required_role) == cu # None

\* verify_role(required_role)
verify_role(cu, ut, required_role) ==
    IF cu = None THEN FALSE
    ELSE IF ut # required_role THEN FALSE
    ELSE TRUE

(***************************************************************************)
(* The store gateway: collections are sequences of documents in insertion  *)
(* order; a document is a record whose fields may be absent.               *)
(***************************************************************************)
Has(doc, k) == k \in DOMAIN doc

\* the filter {k: v}: the field exists and equals v
FieldIs(doc, k, v) == Has(doc, k) /\ doc[k] = v

\* dict.get(k, default)
Get(doc, k, default) == IF Has(doc, k) THEN doc[k] ELSE default

\* collection.find(filter) is SelectSeq(collection, filter): the matching
\* documents in natural order.
\* collection.find_one(filter): the first of the matching documents, or None
find_one(matching) == IF matching = <<>> THEN None ELSE Head(matching)

\* cursor.limit(n)
Limit(docs, n) == SubSeq(docs, 1, IF Len(docs) < n THEN Len(docs) ELSE n)

\* collection.find_one(sort=[(field, -1)]): a document whose field is greatest
\* in the store's string order, or None for an empty collection
find_one_sorted_desc(coll, field) ==
    IF coll = <<>> THEN None
    ELSE LET top == {i \in 1..Len(coll) :
                        \A j \in 1..Len(coll) : ~StrLess(coll[i][field], coll[j][field])}
         IN  coll[CHOOSE i \in top : \A j \in top : i <= j]

RECURSIVE SortByNum(_, _, _)
\* cursor.sort(field, direction) on a numeric field: direction 1 ascending,
\* -1 descending; documents with equal keys stay in natural order
SortByNum(docs, field, direction) ==
    IF docs = <<>> THEN <<>>
    ELSE LET first == {i \in 1..Len(docs) :
                          \A j \in 1..Len(docs) :
                              direction * docs[i][field] <= direction * docs[j][field]}
             k == CHOOSE i \in first : \A j \in first : i <= j
         IN  <<docs[k]>> \o
             SortByNum(SubSeq(docs, 1, k - 1) \o SubSeq(docs, k + 1, Len(docs)),
                       field, direction)

\* a write that replaces the latest document of the collection
replace_latest(d, coll, doc) ==
    [d EXCEPT ![coll] = IF @ = <<>> THEN <<doc>> ELSE [@ EXCEPT ![Len(@)] = doc]]

\* collection.insert_one(doc)
insert_one(d, coll, doc) == [d EXCEPT ![coll] = Append(@, doc)]

\* {"$regex": pattern, "$options": "i"} for patterns of literal characters
\* and the wildcard ".": the pattern matches somewhere in the text
RegexSearchI(pattern, text) ==
    \E i \in 1..(Len(text) - Len(pattern) + 1) :
        \A k \in 1..Len(pattern) :
            \/ Char(pattern, k) = "."
            \/ LowerChar(Char(pattern, k)) = LowerChar(Char(text, i + k - 1))

Collections ==
    {"doctors", "nurses", "administrators", "admins", "patients", "admissions",
     "diagnoses", "prescriptions", "note_events", "medication_administration",
     "patient_vitals", "applications"}

\* number of documents in the whole store
TotalDocs(d) ==
    Len(d.doctors) + Len(d.nurses) + Len(d.administrators) + Len(d.admins)
    + Len(d.patients) + Len(d.admissions) + Len(d.diagnoses)
    + Len(d.prescriptions) + Len(d.note_events)
    + Len(d.medication_administration) + Len(d.patient_vitals)
    + Len(d.applications)

(***************************************************************************)
(* Workflow executors.  Each takes the session (cu, ut), the store d, the  *)
(* clock t and the answers in to its prompts, and yields the store after   *)
(* it, the executor bodies that ran past verify_role, the outcome, the     *)
(* number of store queries made, the identifier allocated and what was     *)
(* shown.                                                                  *)
(***************************************************************************)
R(d, ran, result, lookups, newid, out) ==
    [db |-> d, ran |-> ran, result |-> result, lookups |-> lookups,
     newid |-> newid, out |-> out]

\* the role check failed: the executor returns before its body
Denied(d) == R(d, <<>>, "denied", 0, "", <<>>)

\* an insert that writes the document twice
TryInsert_twice(d, coll, doc, ok, ran, lookups, newid) ==
    IF ok THEN R(insert_one(insert_one(d, coll, doc), coll, doc), ran, "ok", lookups,
                 newid, <<newid>>)
    ELSE R(d, ran, "insert_error", lookups, newid, <<>>)

\* insert_one inside try/except: the document is appended, or the store
\* raises and the error is printed
TryInsert(d, coll, doc, ok, ran, lookups, newid) ==
    IF ok THEN R(insert_one(d, coll, doc), ran, "ok", lookups, newid, <<newid>>)
    ELSE R(d, ran, "insert_error", lookups, newid, <<>>)

\* the allocator without the increment
NextId_same(coll, field, prefix, plen) ==
    LET lastdoc == find_one_sorted_desc(coll, field)
        suffix  == IF lastdoc # None THEN SliceFrom(lastdoc[field], plen) ELSE "0"
    IN  prefix \o ZeroPad(ParseInt(suffix), 3)

\* the allocator step shared by the write workflows: the document with the
\* greatest identifier, its suffix after the first plen characters parsed as
\* an integer, plus one, formatted with three digits; "" stands for the
\* ValueError int() raises on a suffix that is not a number
NextId(coll, field, prefix, plen) ==
    LET lastdoc == find_one_sorted_desc(coll, field)
        suffix  == IF lastdoc # None THEN SliceFrom(lastdoc[field], plen) ELSE "0"
    IN  IF ~IsDigit(suffix) THEN ""
        ELSE prefix \o ZeroPad(ParseInt(suffix) + 1, 3)

\* the admission lookup that forgets the patient
find_admission_of_patient_by_id(d, admission_id, patient_id) ==
    find_one(SelectSeq(d.admissions, LAMBDA x : FieldIs(x, "admission_id", admission_id)))

\* admissions.find_one({"admission_id": ..., "patient_id": ...})
find_admission_of_patient(d, admission_id, patient_id) ==
    find_one(SelectSeq(d.admissions,
             LAMBDA x : FieldIs(x, "admission_id", admission_id)
                        /\ FieldIs(x, "patient_id", patient_id)))

\* the admission lookup that takes whichever admission comes first
find_admission_any(d, admission_id) == find_one(SelectSeq(d.admissions, LAMBDA x : TRUE))

\* admissions.find_one({"admission_id": ...})
find_admission(d, admission_id) ==
    find_one(SelectSeq(d.admissions, LAMBDA x : FieldIs(x, "admission_id", admission_id)))

cmd_create_prescription(cu, ut, d, t, in) ==
    IF ~verify_role(cu, ut, "doctor") THEN Denied(d)
    ELSE
    LET ran == <<"create_prescription">>
        patient_id == Upper(Strip(in.patient_id))
        patient == find_one(SelectSeq(d.patients, LAMBDA x : FieldIs(x, "patient_id", patient_id)))
        admission_id == Upper(Strip(in.admission_id))
        admission == find_admission_of_patient(d, admission_id, patient_id)
        new_id == NextId(d.prescriptions, "prescription_id", "PR_", 3)
        prescription ==
            [prescription_id |-> new_id, admission_id |-> admission_id,
             patient_id |-> patient_id, drug_name |-> Strip(in.text),
             dosage |-> "10mg", frequency |-> "daily",
             prescribed_by |-> cu.name, prescribed_at |-> t]
    IN  IF ~StartsWith(patient_id, "PAT_") THEN R(d, ran, "invalid", 0, "", <<>>)
        ELSE IF patient = None THEN R(d, ran, "not_found", 1, "", <<>>)
        ELSE IF ~StartsWith(admission_id, "ADM_") THEN R(d, ran, "invalid", 1, "", <<>>)
        ELSE IF admission = None THEN R(d, ran, "not_found", 2, "", <<>>)
        ELSE IF new_id = "" THEN R(d, ran, "error", 3, "", <<>>)
        ELSE TryInsert(d, "prescriptions", prescription, in.insert_ok, ran, 3, new_id)

\* an add_note that stamps the note with a fixed identity, whoever is
\* logged in
cmd_add_note_unstamped(cu, ut, d, t, in) ==
    IF ~verify_role(cu, ut, "doctor") THEN Denied(d)
    ELSE
    LET ran == <<"add_note">>
        admission_id == Upper(Strip(in.admission_id))
        admission == find_admission(d, admission_id)
        note_text == Strip(in.text)
        new_id == NextId(d.note_events, "note_id", "NOTE_", 5)
        note ==
            [note_id |-> new_id, admission_id |-> admission_id,
             patient_id |-> admission.patient_id, doctor_id |-> "DOC_000",
             doctor_name |-> "Unknown", note_text |-> note_text, timestamp |-> t]
    IN  IF ~StartsWith(admission_id, "ADM_") THEN R(d, ran, "invalid", 0, "", <<>>)
        ELSE IF admission = None THEN R(d, ran, "not_found", 1, "", <<>>)
        ELSE IF note_text = "" THEN R(d, ran, "invalid", 1, "", <<>>)
        ELSE IF new_id = "" \/ ~Has(admission, "patient_id")
             THEN R(d, ran, "error", 2, "", <<>>)
        ELSE TryInsert(d, "note_events", note, in.insert_ok, ran, 2, new_id)

cmd_add_note(cu, ut, d, t, in) ==
    IF ~verify_role(cu, ut, "doctor") THEN Denied(d)
    ELSE
    LET ran == <<"add_note">>
        admission_id == Upper(Strip(in.admission_id))
        admission == find_admission(d, admission_id)
        note_text == Strip(in.text)
        new_id == NextId(d.note_events, "note_id", "NOTE_", 5)
        note ==
            [note_id |-> new_id, admission_id |-> admission_id,
             patient_id |-> admission.patient_id, doctor_id |-> cu.id,
             doctor_name |-> cu.name, note_text |-> note_text, timestamp |-> t]
    IN  IF ~StartsWith(admission_id, "ADM_") THEN R(d, ran, "invalid", 0, "", <<>>)
        ELSE IF admission = None THEN R(d, ran, "not_found", 1, "", <<>>)
        ELSE IF note_text = "" THEN R(d, ran, "invalid", 1, "", <<>>)
        ELSE IF new_id = "" \/ ~Has(admission, "patient_id")
             THEN R(d, ran, "error", 2, "", <<>>)
        ELSE TryInsert(d, "note_events", note, in.insert_ok, ran, 2, new_id)

\* a record_administration that takes any admission of the patient
cmd_record_administration_any_admission(cu, ut, d, t, in) ==
    IF ~verify_role(cu, ut, "nurse") THEN Denied(d)
    ELSE
    LET ran == <<"record_administration">>
        patient_id == Upper(Strip(in.patient_id))
        patient == find_one(SelectSeq(d.patients, LAMBDA x : FieldIs(x, "patient_id", patient_id)))
        admission == find_one(SelectSeq(d.admissions,
                        LAMBDA x : FieldIs(x, "patient_id", patient_id)))
        prescriptions == SelectSeq(d.prescriptions,
                            LAMBDA x : FieldIs(x, "admission_id", admission.admission_id))
        selection == Strip(in.selection)
        selected_rx == prescriptions[ParseInt(selection)]
        new_id == NextId(d.medication_administration, "event_id", "MME_", 4)
        admin_record ==
            [event_id |-> new_id, patient_id |-> patient_id,
             prescription_id |-> selected_rx.prescription_id,
             medication_name |-> selected_rx.drug_name,
             event_type |-> "Administration", dosage |-> selected_rx.dosage,
             timestamp |-> t, staff_id |-> cu.id, staff_name |-> cu.name,
             staff_type |-> "Nurse"]
    IN  IF ~StartsWith(patient_id, "PAT_") THEN R(d, ran, "invalid", 0, "", <<>>)
        ELSE IF patient = None THEN R(d, ran, "not_found", 1, "", <<>>)
        ELSE IF admission = None THEN R(d, ran, "not_found", 2, "", <<>>)
        ELSE IF prescriptions = <<>> THEN R(d, ran, "not_found", 3, "", <<>>)
        ELSE IF ~IsDigit(selection)
                \/ ~(1 <= ParseInt(selection) /\ ParseInt(selection) <= Len(prescriptions))
             THEN R(d, ran, "invalid", 3, "", <<>>)
        ELSE IF new_id = "" THEN R(d, ran, "error", 4, "", <<>>)
        ELSE TryInsert(d, "medication_administration", admin_record, in.insert_ok,
                       ran, 4, new_id)

cmd_record_administration(cu, ut, d, t, in) ==
    IF ~verify_role(cu, ut, "nurse") THEN Denied(d)
    ELSE
    LET ran == <<"record_administration">>
        patient_id == Upper(Strip(in.patient_id))
        patient == find_one(SelectSeq(d.patients, LAMBDA x : FieldIs(x, "patient_id", patient_id)))
        admission == find_one(SelectSeq(d.admissions,
                        LAMBDA x : /\ FieldIs(x, "patient_id", patient_id)
                                   /\ FieldIs(x, "department", cu.department)
                                   /\ ~Has(x, "discharge_date")))
        prescriptions == SelectSeq(d.prescriptions,
                            LAMBDA x : FieldIs(x, "admission_id", admission.admission_id))
        selection == Strip(in.selection)
        selected_rx == prescriptions[ParseInt(selection)]
        new_id == NextId(d.medication_administration, "event_id", "MME_", 4)
        admin_record ==
            [event_id |-> new_id, patient_id |-> patient_id,
             prescription_id |-> selected_rx.prescription_id,
             medication_name |-> selected_rx.drug_name,
             event_type |-> "Administration", dosage |-> selected_rx.dosage,
             timestamp |-> t, staff_id |-> cu.id, staff_name |-> cu.name,
             staff_type |-> "Nurse"]
    IN  IF ~StartsWith(patient_id, "PAT_") THEN R(d, ran, "invalid", 0, "", <<>>)
        ELSE IF patient = None THEN R(d, ran, "not_found", 1, "", <<>>)
        ELSE IF admission = None THEN R(d, ran, "not_found", 2, "", <<>>)
        ELSE IF prescriptions = <<>> THEN R(d, ran, "not_found", 3, "", <<>>)
        ELSE IF ~IsDigit(selection)
                \/ ~(1 <= ParseInt(selection) /\ ParseInt(selection) <= Len(prescriptions))
             THEN R(d, ran, "invalid", 3, "", <<>>)
        ELSE IF new_id = "" THEN R(d, ran, "error", 4, "", <<>>)
        ELSE TryInsert(d, "medication_administration", admin_record, in.insert_ok,
                       ran, 4, new_id)

\* float(s) accepts digits with at most one decimal point among them
IsFloat(s) ==
    \/ IsDigit(s)
    \/ \E i \in 1..Len(s) :
          /\ Char(s, i) = "."
          /\ IsDigit(SubSeq(s, 1, i - 1) \o SubSeq(s, i + 1, Len(s)))

\* a patient_vitals that looks the patient up whatever the id looks like
cmd_patient_vitals_unchecked(cu, ut, d, t, in) ==
    IF ~verify_role(cu, ut, "nurse") THEN Denied(d)
    ELSE
    LET ran == <<"patient_vitals">>
        patient_id == Upper(Strip(in.patient_id))
        patient == find_one(SelectSeq(d.patients, LAMBDA x : FieldIs(x, "patient_id", patient_id)))
        temperature == Strip(in.text)
        vitals ==
            [patient_id |-> patient_id, patient_name |-> patient.name,
             temperature |-> IF temperature # "" THEN temperature ELSE "None",
             blood_pressure |-> "", pulse |-> "None", oxygen_saturation |-> "None",
             notes |-> "", recorded_by |-> cu.name, recorded_at |-> t]
    IN  IF patient = None THEN R(d, ran, "not_found", 1, "", <<>>)
        ELSE IF temperature # "" /\ ~IsFloat(temperature)
             THEN R(d, ran, "error", 1, "", <<>>)
        ELSE TryInsert(d, "patient_vitals", vitals, in.insert_ok, ran, 1, "")

cmd_patient_vitals(cu, ut, d, t, in) ==
    IF ~verify_role(cu, ut, "nurse") THEN Denied(d)
    ELSE
    LET ran == <<"patient_vitals">>
        patient_id == Upper(Strip(in.patient_id))
        patient == find_one(SelectSeq(d.patients, LAMBDA x : FieldIs(x, "patient_id", patient_id)))
        temperature == Strip(in.text)
        vitals ==
            [patient_id |-> patient_id, patient_name |-> patient.name,
             temperature |-> IF temperature # "" THEN temperature ELSE "None",
             blood_pressure |-> "", pulse |-> "None", oxygen_saturation |-> "None",
             notes |-> "", recorded_by |-> cu.name, recorded_at |-> t]
    IN  IF ~StartsWith(patient_id, "PAT_") THEN R(d, ran, "invalid", 0, "", <<>>)
        ELSE IF patient = None THEN R(d, ran, "not_found", 1, "", <<>>)
        ELSE IF temperature # "" /\ ~IsFloat(temperature)
             THEN R(d, ran, "error", 1, "", <<>>)
        ELSE TryInsert(d, "patient_vitals", vitals, in.insert_ok, ran, 1, "")

cmd_add_staff(cu, ut, d, t, in) ==
    IF ~verify_role(cu, ut, "admin") THEN Denied(d)
    ELSE
    LET ran == <<"add_staff">>
        staff_type == Lower(Strip(in.staff_type))
        coll == staff_type \o "s"
        field == staff_type \o "_id"
        name == Title(Strip(in.name))
        new_id == NextId(d[coll], field, Upper(SliceTo(staff_type, 3)) \o "_", 4)
        staff_data ==
            (field :> new_id) @@
            [name |-> name, department |-> "Cardiology", contact |-> "555-0199",
             years_of_experience |-> 0]
    IN  IF staff_type \notin {"doctor", "nurse", "admin"}
        THEN R(d, ran, "invalid", 0, "", <<>>)
        ELSE IF new_id = "" THEN R(d, ran, "error", 1, "", <<>>)
        ELSE TryInsert(d, coll, staff_data, in.insert_ok, ran, 1, new_id)

(***************************************************************************)
(* Read-only executors.  out lists what is shown, in display order.        *)
(***************************************************************************)
RECURSIVE Flatten(_)
Flatten(seqs) == IF seqs = <<>> THEN <<>> ELSE Head(seqs) \o Flatten(Tail(seqs))

\* the values of a field over a sequence of documents
Column(docs, field) == [i \in 1..Len(docs) |-> docs[i][field]]

\* a history that lists the admissions of every patient
show_medical_history_all_admissions(d, patient_id) ==
    LET Shown(adm) ==
            <<adm.admission_id>>
            \o Column(SelectSeq(d.diagnoses,
                           LAMBDA x : FieldIs(x, "admission_id", adm.admission_id)),
                      "diagnosis_id")
            \o Column(SelectSeq(d.prescriptions,
                           LAMBDA x : FieldIs(x, "admission_id", adm.admission_id)),
                      "prescription_id")
    IN  Flatten([i \in 1..Len(d.admissions) |-> Shown(d.admissions[i])])

\* show_medical_history(patient_id): per admission of the patient, its
\* diagnoses and its prescriptions
show_medical_history(d, patient_id) ==
    LET admissions == SelectSeq(d.admissions, LAMBDA x : FieldIs(x, "patient_id", patient_id))
        Shown(adm) ==
            <<adm.admission_id>>
            \o Column(SelectSeq(d.diagnoses,
                           LAMBDA x : FieldIs(x, "admission_id", adm.admission_id)),
                      "diagnosis_id")
            \o Column(SelectSeq(d.prescriptions,
                           LAMBDA x : FieldIs(x, "admission_id", adm.admission_id)),
                      "prescription_id")
    IN  Flatten([i \in 1..Len(admissions) |-> Shown(admissions[i])])

\* cmd_patient_details(patient_id): arg is the identifier passed by the
\* caller, "" when the executor is to prompt for it
cmd_patient_details(cu, ut, d, t, arg, in) ==
    IF ~verify_role(cu, ut, "doctor") THEN Denied(d)
    ELSE
    LET ran == <<"patient_details">>
        patient_id == IF arg = "" THEN Upper(Strip(in.patient_id)) ELSE arg
        patient == find_one(SelectSeq(d.patients, LAMBDA x : FieldIs(x, "patient_id", patient_id)))
        admissions == SelectSeq(d.admissions, LAMBDA x : FieldIs(x, "patient_id", patient_id))
    IN  IF arg = "" /\ ~StartsWith(patient_id, "PAT_")
        THEN R(d, ran, "invalid", 0, "", <<>>)
        ELSE IF patient = None THEN R(d, ran, "not_found", 1, "", <<>>)
        ELSE R(d, ran, "ok", 2 + 2 * Len(admissions), "",
               <<patient_id>> \o show_medical_history(d, patient_id))

\* select_patient_details(patients)
select_patient_details(cu, ut, d, t, patients, in) ==
    LET selection == Strip(in.selection)
        selected_idx == ParseInt(selection) - 1
    IN  IF selection # "" /\ IsDigit(selection)
           /\ 0 <= selected_idx /\ selected_idx < Len(patients)
        THEN cmd_patient_details(cu, ut, d, t, patients[selected_idx + 1].patient_id, in)
        ELSE R(d, <<>>, "ok", 0, "", <<>>)

cmd_search_patient(cu, ut, d, t, in) ==
    IF ~verify_role(cu, ut, "doctor") THEN Denied(d)
    ELSE
    LET ran == <<"search_patient">>
        name == Strip(in.text)
        patients == Limit(SelectSeq(d.patients,
                               LAMBDA x : Has(x, "name") /\ RegexSearchI(name, x.name)), 5)
        details == select_patient_details(cu, ut, d, t, patients, in)
    IN  IF name = "" THEN R(d, ran, "invalid", 0, "", <<>>)
        ELSE IF patients = <<>> THEN R(d, ran, "not_found", 1, "", <<>>)
        ELSE R(d, ran \o details.ran, details.result, 1 + details.lookups, "",
               Column(patients, "patient_id") \o details.out)

cmd_admission_history(cu, ut, d, t, in) ==
    IF ~verify_role(cu, ut, "doctor") THEN Denied(d)
    ELSE
    LET ran == <<"admission_history">>
        patient_id == Upper(Strip(in.patient_id))
        admissions == SortByNum(SelectSeq(d.admissions,
                                     LAMBDA x : FieldIs(x, "patient_id", patient_id)),
                                "admission_date", -1)
        Shown(adm) ==
            <<adm.admission_id>>
            \o Column(SelectSeq(d.diagnoses,
                           LAMBDA x : FieldIs(x, "admission_id", adm.admission_id)),
                      "diagnosis_id")
    IN  IF ~StartsWith(patient_id, "PAT_") THEN R(d, ran, "invalid", 0, "", <<>>)
        ELSE IF admissions = <<>> THEN R(d, ran, "not_found", 1, "", <<>>)
        ELSE R(d, ran, "ok", 1 + Len(admissions), "",
               Flatten([i \in 1..Len(admissions) |-> Shown(admissions[i])]))

cmd_view_schedule(cu, ut, d, t, in) ==
    IF ~verify_role(cu, ut, "doctor") THEN Denied(d)
    ELSE
    LET ran == <<"view_schedule">>
        admissions == SortByNum(SelectSeq(d.admissions,
                                     LAMBDA x : /\ FieldIs(x, "doctor", cu.name)
                                                /\ Has(x, "admission_date")
                                                /\ x.admission_date >= t),
                                "admission_date", 1)
    IN  IF admissions = <<>> THEN R(d, ran, "not_found", 1, "", <<>>)
        ELSE R(d, ran, "ok", 1 + 2 * Len(admissions), "",
               Column(admissions, "admission_id"))

\* a medication list that counts an administration of any day
cmd_medication_list_any_day(cu, ut, d, t, in) ==
    IF ~verify_role(cu, ut, "nurse") THEN Denied(d)
    ELSE
    LET ran == <<"medication_list">>
        patients == SelectSeq(d.admissions,
                         LAMBDA x : /\ FieldIs(x, "department", cu.department)
                                    /\ Has(x, "admission_date")
                                    /\ x.admission_date <= t
                                    /\ ~Has(x, "discharge_date"))
        Rx(adm) == SelectSeq(d.prescriptions,
                        LAMBDA x : FieldIs(x, "admission_id", adm.admission_id))
        Status(adm, rx) ==
            IF find_one(SelectSeq(d.medication_administration,
                        LAMBDA x : /\ FieldIs(x, "patient_id", adm.patient_id)
                                   /\ FieldIs(x, "prescription_id", rx.prescription_id)))
               # None
            THEN "Given" ELSE "Pending"
        Shown(adm) == [i \in 1..Len(Rx(adm)) |->
                          <<Rx(adm)[i].prescription_id, Status(adm, Rx(adm)[i])>>]
    IN  IF patients = <<>> THEN R(d, ran, "not_found", 1, "", <<>>)
        ELSE R(d, ran, "ok", 1 + 2 * Len(patients), "",
               Flatten([i \in 1..Len(patients) |-> Shown(patients[i])]))

cmd_medication_list(cu, ut, d, t, in) ==
    IF ~verify_role(cu, ut, "nurse") THEN Denied(d)
    ELSE
    LET ran == <<"medication_list">>
        patients == SelectSeq(d.admissions,
                         LAMBDA x : /\ FieldIs(x, "department", cu.department)
                                    /\ Has(x, "admission_date")
                                    /\ x.admission_date <= t
                                    /\ ~Has(x, "discharge_date"))
        Rx(adm) == SelectSeq(d.prescriptions,
                        LAMBDA x : FieldIs(x, "admission_id", adm.admission_id))
        Status(adm, rx) ==
            IF find_one(SelectSeq(d.medication_administration,
                        LAMBDA x : /\ FieldIs(x, "patient_id", adm.patient_id)
                                   /\ FieldIs(x, "prescription_id", rx.prescription_id)
                                   /\ Has(x, "timestamp")
                                   /\ x.timestamp >= t)) # None
            THEN "Given" ELSE "Pending"
        Shown(adm) == [i \in 1..Len(Rx(adm)) |->
                          <<Rx(adm)[i].prescription_id, Status(adm, Rx(adm)[i])>>]
        \* patient_info['name'] of a patient that does not exist raises
        broken == \E i \in 1..Len(patients) :
                      /\ Rx(patients[i]) # <<>>
                      /\ find_one(SelectSeq(d.patients,
                                  LAMBDA x : FieldIs(x, "patient_id",
                                                     patients[i].patient_id))) = None
    IN  IF patients = <<>> THEN R(d, ran, "not_found", 1, "", <<>>)
        ELSE IF broken THEN R(d, ran, "error", 1, "", <<>>)
        ELSE R(d, ran, "ok", 1 + 2 * Len(patients), "",
               Flatten([i \in 1..Len(patients) |-> Shown(patients[i])]))

\* a listing that also files a record of having been looked at
cmd_view_applications_logged(cu, ut, d, t, in) ==
    IF ~verify_role(cu, ut, "nurse") THEN Denied(d)
    ELSE R(insert_one(d, "applications",
                      [application_id |-> "APP_LOG", patient_id |-> "PAT_001",
                       test_type |-> "Blood", status |-> "Viewed", created_at |-> t]),
           <<"view_applications">>, "ok", 1, "", Column(d.applications, "application_id"))

cmd_view_applications(cu, ut, d, t, in) ==
    IF ~verify_role(cu, ut, "nurse") THEN Denied(d)
    ELSE
    LET ran == <<"view_applications">>
        status == Capitalize(Strip(in.text))
        filtered == status \in {"Pending", "Approved", "Completed"}
        applications ==
            Limit(SortByNum(SelectSeq(d.applications,
                                 LAMBDA x : ~filtered \/ FieldIs(x, "status", status)),
                            "created_at", -1), 10)
    IN  IF applications = <<>> THEN R(d, ran, "not_found", 1, "", <<>>)
        ELSE R(d, ran, "ok", 1 + Len(applications), "",
               Column(applications, "application_id"))

\* the distinct keys of the $group stage in order of first appearance, a
\* missing field grouped under null (written "None" here)
GroupKeys(coll, field) ==
    LET key(i) == Get(coll[i], field, "None")
        firsts == SelectSeq([i \in 1..Len(coll) |-> i],
                            LAMBDA i : \A j \in 1..(i - 1) : key(j) # key(i))
    IN  [n \in 1..Len(firsts) |-> key(firsts[n])]

\* the groups printed with the key the store gives them
GroupCount_raw_keys(coll, field) ==
    LET keys == GroupKeys(coll, field)
        count(k) == Cardinality({i \in 1..Len(coll) : Get(coll[i], field, "None") = k})
    IN  [n \in 1..Len(keys) |-> <<keys[n], count(keys[n])>>]

\* aggregate([{"$group": {"_id": "$field", "count": {"$sum": 1}}}]) as it is
\* printed: g['_id'] or 'Unknown', and the count
GroupCount(coll, field) ==
    LET keys == GroupKeys(coll, field)
        count(k) == Cardinality({i \in 1..Len(coll) : Get(coll[i], field, "None") = k})
    IN  [n \in 1..Len(keys) |->
            <<IF keys[n] \in {"None", ""} THEN "Unknown" ELSE keys[n], count(keys[n])>>]

cmd_generate_report(cu, ut, d, t, in) ==
    IF ~verify_role(cu, ut, "admin") THEN Denied(d)
    ELSE
    LET ran == <<"generate_report">>
        report_type == Lower(Strip(in.text))
    IN  IF report_type = "patients"
        THEN R(d, ran, "ok", 3, "", GroupCount(d.patients, "gender"))
        ELSE IF report_type = "admissions"
        THEN R(d, ran, "ok", 3, "", GroupCount(d.admissions, "department"))
        ELSE IF report_type = "tests"
        THEN R(d, ran, "ok", 4, "",
               GroupCount(d.applications, "status")
               \o GroupCount(d.applications, "test_type"))
        ELSE R(d, ran, "invalid", 0, "", <<>>)

(***************************************************************************)
(* Session: login, logout, exit.                                           *)
(***************************************************************************)
S(cu, ut, result, lookups) == [cu |-> cu, ut |-> ut, result |-> result, lookups |-> lookups]

\* a prefix table that takes every other staff id for a doctor's
PrefixRole_default_doctor(staff_id) ==
    IF StartsWith(staff_id, "NUR_") THEN [collection |-> "nurses", user_type |-> "nurse"]
    ELSE IF StartsWith(staff_id, "ADM_")
         THEN [collection |-> "administrators", user_type |-> "admin"]
    ELSE [collection |-> "doctors", user_type |-> "doctor"]

\* the role, collection and identifier field handle_login derives from the
\* prefix of the staff id; None for an unknown prefix
PrefixRole(staff_id) ==
    IF StartsWith(staff_id, "DOC_") THEN [collection |-> "doctors", user_type |-> "doctor"]
    ELSE IF StartsWith(staff_id, "NUR_") THEN [collection |-> "nurses", user_type |-> "nurse"]
    ELSE IF StartsWith(staff_id, "ADM_")
         THEN [collection |-> "administrators", user_type |-> "admin"]
    ELSE None

\* the staff lookup that does not compare the name
find_staff_by_id(d, pr, staff_id, name) ==
    find_one(SelectSeq(d[pr.collection], LAMBDA x : FieldIs(x, pr.user_type \o "_id", staff_id)))

\* self.db[collection].find_one({f"{user_type}_id": staff_id, "name": name})
find_staff(d, pr, staff_id, name) ==
    find_one(SelectSeq(d[pr.collection],
             LAMBDA x : /\ FieldIs(x, pr.user_type \o "_id", staff_id)
                        /\ FieldIs(x, "name", name)))

\* a login that tells an unknown staff id from a wrong name
handle_login_telling(cu, ut, d, in) ==
    IF cu # None THEN S(cu, ut, "already_logged_in", 0)
    ELSE
    LET staff_id == Upper(Strip(in.staff_id))
        name == Title(Strip(in.name))
        pr == PrefixRole(staff_id)
        staff == find_staff(d, pr, staff_id, name)
    IN  IF staff_id = "" \/ name = "" THEN S(cu, ut, "required", 0)
        ELSE IF pr = None THEN S(cu, ut, "bad_prefix", 0)
        ELSE IF staff # None
             THEN S([id |-> staff_id, name |-> name, type |-> pr.user_type,
                     department |-> Get(staff, "department", "Unknown"),
                     contact |-> Get(staff, "contact", "N/A")],
                    pr.user_type, "ok", 1)
        ELSE IF find_staff_by_id(d, pr, staff_id, name) = None
             THEN S(cu, pr.user_type, "unknown_id", 1)
        ELSE S(cu, pr.user_type, "auth_failed", 1)

\* a login that drops whoever is logged in
handle_login_dropping(cu, ut, d, in) ==
    IF cu # None THEN S(None, NoType, "already_logged_in", 0)
    ELSE
    LET staff_id == Upper(Strip(in.staff_id))
        name == Title(Strip(in.name))
        pr == PrefixRole(staff_id)
        staff == find_staff(d, pr, staff_id, name)
    IN  IF staff_id = "" \/ name = "" THEN S(cu, ut, "required", 0)
        ELSE IF pr = None THEN S(cu, ut, "bad_prefix", 0)
        ELSE IF staff # None
             THEN S([id |-> staff_id, name |-> name, type |-> pr.user_type,
                     department |-> Get(staff, "department", "Unknown"),
                     contact |-> Get(staff, "contact", "N/A")],
                    pr.user_type, "ok", 1)
        ELSE S(cu, pr.user_type, "auth_failed", 1)

\* handle_login(): user_type is assigned when the prefix is recognised,
\* before the store is asked
handle_login(cu, ut, d, in) ==
    IF cu # None THEN S(cu, ut, "already_logged_in", 0)
    ELSE
    LET staff_id == Upper(Strip(in.staff_id))
        name == Title(Strip(in.name))
        pr == PrefixRole(staff_id)
        staff == find_staff(d, pr, staff_id, name)
    IN  IF staff_id = "" \/ name = "" THEN S(cu, ut, "required", 0)
        ELSE IF pr = None THEN S(cu, ut, "bad_prefix", 0)
        ELSE IF staff # None
             THEN S([id |-> staff_id, name |-> name, type |-> pr.user_type,
                     department |-> Get(staff, "department", "Unknown"),
                     contact |-> Get(staff, "contact", "N/A")],
                    pr.user_type, "ok", 1)
        ELSE S(cu, pr.user_type, "auth_failed", 1)

\* handle_logout()
handle_logout(cu, ut) ==
    IF cu # None THEN S(None, NoType, "logged_out", 0)
    ELSE S(cu, ut, "not_logged_in", 0)

\* handle_exit(): logs out a logged-in user, then sys.exit(0)
handle_exit(cu, ut) ==
    IF cu # None THEN handle_logout(cu, ut) ELSE S(cu, ut, "bye", 0)

\* getattr(self, "cmd_" + cmd)(user_input) for a method that exists
Exec(cmd, cu, ut, d, t, user_input, in) ==
    CASE cmd = "search_patient"        -> cmd_search_patient(cu, ut, d, t, in)
      [] cmd = "patient_details"       -> cmd_patient_details(cu, ut, d, t, user_input, in)
      [] cmd = "admission_history"     -> cmd_admission_history(cu, ut, d, t, in)
      [] cmd = "create_prescription"   -> cmd_create_prescription(cu, ut, d, t, in)
      [] cmd = "view_schedule"         -> cmd_view_schedule(cu, ut, d, t, in)
      [] cmd = "add_note"              -> cmd_add_note(cu, ut, d, t, in)
      [] cmd = "medication_list"       -> cmd_medication_list(cu, ut, d, t, in)
      [] cmd = "record_administration" -> cmd_record_administration(cu, ut, d, t, in)
      [] cmd = "patient_vitals"        -> cmd_patient_vitals(cu, ut, d, t, in)
      [] cmd = "view_applications"     -> cmd_view_applications(cu, ut, d, t, in)
      [] cmd = "add_staff"             -> cmd_add_staff(cu, ut, d, t, in)
      [] cmd = "generate_report"       -> cmd_generate_report(cu, ut, d, t, in)

\* process_command(user_input): the matched command's method is looked up
\* with getattr; a name with no method raises AttributeError ("error"),
\* which the loop of start() catches
process_command(cu, ut, d, t, user_input, in) ==
    LET cmd == MatchCommand(user_input, cu # None, ut)
    IN  IF cmd = "" THEN R(d, <<>>, "unrecognized", 0, "", <<>>)
        ELSE IF cmd \notin Executors THEN R(d, <<>>, "error", 0, "", <<>>)
        ELSE Exec(cmd, cu, ut, d, t, user_input, in)

(***************************************************************************)
(* The store a session starts from: staff, patients, admissions, diagnoses *)
(* and applications as the importer loads them; the event collections      *)
(* either still empty (fresh) or already holding earlier records (aged).   *)
(***************************************************************************)
BaseStore ==
    [doctors |-> <<[doctor_id |-> "DOC_001", name |-> "Jane Doe",
                    department |-> "Cardiology", contact |-> "555-0101"]>>,
     nurses |-> <<[nurse_id |-> "NUR_001", name |-> "Ann Lee",
                   department |-> "Cardiology", contact |-> "555-0102"]>>,
     administrators |-> <<[admin_id |-> "ADM_001", name |-> "Sam Roe",
                           department |-> "Office"]>>,
     admins |-> <<>>,
     patients |-> <<[patient_id |-> "PAT_001", name |-> "John Doe", dob |-> 0,
                     gender |-> "M", contact |-> "555-0111"],
                    [patient_id |-> "PAT_002", name |-> "Mary Major", dob |-> 0,
                     contact |-> "555-0112"]>>,
     admissions |-> <<[admission_id |-> "ADM_001", patient_id |-> "PAT_001",
                       department |-> "Cardiology", doctor |-> "Jane Doe",
                       admission_date |-> 0],
                      [admission_id |-> "ADM_002", patient_id |-> "PAT_002",
                       department |-> "Neurology", doctor |-> "Jane Doe",
                       admission_date |-> 0, discharge_date |-> 0]>>,
     diagnoses |-> <<[diagnosis_id |-> "DIA_001", admission_id |-> "ADM_001",
                      icd_code |-> "I10", description |-> "Hypertension"]>>,
     prescriptions |-> <<>>,
     note_events |-> <<>>,
     medication_administration |-> <<>>,
     patient_vitals |-> <<>>,
     applications |-> <<[application_id |-> "APP_001", patient_id |-> "PAT_001",
                         test_type |-> "Blood", status |-> "Pending",
                         created_at |-> 0]>>]

FreshStore == BaseStore

\* an earlier prescription, note and administration event with the given
\* sequence numbers
OldPrescription(n) ==
    [prescription_id |-> "PR_" \o ZeroPad(n, 3), admission_id |-> "ADM_001",
     patient_id |-> "PAT_001", drug_name |-> "aspirin", dosage |-> "10mg",
     frequency |-> "daily", prescribed_by |-> "Jane Doe", prescribed_at |-> 0]

OldNote(n) ==
    [note_id |-> "NOTE_" \o ZeroPad(n, 3), admission_id |-> "ADM_001",
     patient_id |-> "PAT_001", doctor_id |-> "DOC_001", doctor_name |-> "Jane Doe",
     note_text |-> "stable", timestamp |-> 0]

OldEvent(n, rx) ==
    [event_id |-> "MME_" \o ZeroPad(n, 3), patient_id |-> "PAT_001",
     prescription_id |-> "PR_" \o ZeroPad(rx, 3), medication_name |-> "aspirin",
     event_type |-> "Administration", dosage |-> "10mg", timestamp |-> 0,
     staff_id |-> "NUR_001", staff_name |-> "Ann Lee", staff_type |-> "Nurse"]

\* the store of a hospital long in use: prescriptions up to PR_999
AgedStore ==
    [BaseStore EXCEPT
        !.prescriptions = <<OldPrescription(998), OldPrescription(999)>>,
        !.medication_administration = <<OldEvent(9, 998)>>]

\* a store some way in: its greatest identifiers are not its latest documents
UsedStore ==
    [BaseStore EXCEPT
        !.prescriptions = <<OldPrescription(7), OldPrescription(2)>>,
        !.note_events = <<OldNote(99)>>,
        !.medication_administration = <<OldEvent(199, 7)>>,
        !.doctors = Append(@, [doctor_id |-> "DOC_010", name |-> "Juan Roe",
                               department |-> "Neurology", contact |-> "555-0103"]),
        !.admins = <<[admin_id |-> "ADM_004", name |-> "Old Admin",
                      department |-> "Office", contact |-> "555-0104",
                      years_of_experience |-> 0]>>]

(***************************************************************************)
(* What the user types: the input lines and the answers to the prompts.    *)
(***************************************************************************)
NoInput ==
    [staff_id |-> "", name |-> "", patient_id |-> "", admission_id |-> "",
     text |-> "", selection |-> "", staff_type |-> "", insert_ok |-> TRUE]

\* the phrases registered in one table
PhrasesOf(table) ==
    UNION {{table[i].phrases[k] : k \in 1..Len(table[i].phrases)} : i \in 1..Len(table)}

\* every registered phrase of every table
AllPhrases == UNION {PhrasesOf(commands[tb]) : tb \in DOMAIN commands}

Utterances ==
    AllPhrases \cup
    {"", "hello", "thanks", "sorry", "see you", "xyzzy", " LOGOUT ", "logout and exit",
     "help me find patient", "add note and new prescription"}

LoginInputs ==
    {[NoInput EXCEPT !.staff_id = i, !.name = n] :
        i \in {"doc_001", "NUR_001", "ADM_001", "DOC_009", "XYZ_001"},
        n \in {"jane doe", "Ann Lee", "SAM ROE"}}
    \cup {[NoInput EXCEPT !.staff_id = "DOC_001"],
          [NoInput EXCEPT !.name = "Jane Doe"],
          [NoInput EXCEPT !.staff_id = "AB", !.name = "Jane Doe"],
          [NoInput EXCEPT !.staff_id = "doc_", !.name = "Jane Doe"]}

PatientIds == {"pat_001", "PAT_002", "PAT_009", "XYZ"}
AdmissionIds == {"ADM_001", "adm_002", "ADM_009", "XYZ"}

\* with: the inputs of a set, each also with the store refusing the insert
WithFailure(ins) == ins \cup {[i EXCEPT !.insert_ok = FALSE] : i \in ins}

InputsOf(cmd) ==
    CASE cmd = "create_prescription" ->
            {[NoInput EXCEPT !.patient_id = p, !.text = "aspirin"] :
                p \in {"PAT_009", "XYZ"}}
            \cup {[NoInput EXCEPT !.patient_id = p, !.admission_id = a,
                                  !.text = "aspirin"] :
                     p \in {"pat_001", "PAT_002"}, a \in AdmissionIds}
            \cup {[NoInput EXCEPT !.patient_id = "pat_001", !.admission_id = "ADM_001",
                                  !.text = "aspirin", !.insert_ok = FALSE]}
      [] cmd = "add_note" ->
            {[NoInput EXCEPT !.admission_id = a, !.text = "stable"] : a \in AdmissionIds}
            \cup {[NoInput EXCEPT !.admission_id = "ADM_001"],
                  [NoInput EXCEPT !.admission_id = "ADM_001", !.text = "stable",
                                  !.insert_ok = FALSE]}
      [] cmd = "record_administration" ->
            {[NoInput EXCEPT !.patient_id = p] : p \in {"PAT_002", "PAT_009", "XYZ"}}
            \cup {[NoInput EXCEPT !.patient_id = "pat_001", !.selection = n] :
                     n \in {"1", "2", "0", "x"}}
            \cup {[NoInput EXCEPT !.patient_id = "pat_001", !.selection = "1",
                                  !.insert_ok = FALSE],
                  [NoInput EXCEPT !.patient_id = "PAT_002", !.selection = "1"]}
      [] cmd = "patient_vitals" ->
            {[NoInput EXCEPT !.patient_id = p] : p \in PatientIds}
            \cup {[NoInput EXCEPT !.patient_id = "pat_001", !.text = x] :
                     x \in {"37.5", "hot"}}
            \cup {[NoInput EXCEPT !.patient_id = "pat_001", !.insert_ok = FALSE]}
      [] cmd = "add_staff" ->
            WithFailure({[NoInput EXCEPT !.staff_type = s, !.name = "new person"] :
                            s \in {"doctor", "Nurse", "admin"}})
            \cup {[NoInput EXCEPT !.staff_type = "clerk"]}
      [] cmd = "search_patient" ->
            {[NoInput EXCEPT !.text = "doe", !.selection = n] : n \in {"", "1", "9"}}
            \cup {[NoInput EXCEPT !.text = q] : q \in {"", "zz", "."}}
      [] cmd \in {"patient_details", "admission_history"} ->
            {[NoInput EXCEPT !.patient_id = p] : p \in PatientIds}
      [] cmd = "view_applications" ->
            {[NoInput EXCEPT !.text = x] : x \in {"", "pending", "approved"}}
      [] cmd = "generate_report" ->
            {[NoInput EXCEPT !.text = x] :
                x \in {"patients", "admissions", "tests", "staff"}}
      [] OTHER -> {NoInput}

\* the answers given when an executor is called directly: ones its body
\* would accept
CallInputsOf(cmd) ==
    CASE cmd \in {"create_prescription", "add_note"} ->
            {[NoInput EXCEPT !.patient_id = "PAT_001", !.admission_id = "ADM_001",
                             !.text = "aspirin"]}
      [] cmd \in {"record_administration", "patient_vitals", "patient_details",
                  "admission_history"} ->
            {[NoInput EXCEPT !.patient_id = "PAT_001", !.selection = "1"]}
      [] cmd = "add_staff" ->
            {[NoInput EXCEPT !.staff_type = "nurse", !.name = "New Person"]}
      [] cmd = "search_patient" -> {[NoInput EXCEPT !.text = "doe"]}
      [] cmd = "generate_report" -> {[NoInput EXCEPT !.text = "patients"]}
      [] OTHER -> {NoInput}

(***************************************************************************)
(* The state machine.  last records the step just taken: how the executor  *)
(* was reached (op), the input line, the branch of start(), the command    *)
(* dispatched, the prompt answers, the executor bodies that ran, the       *)
(* outcome, the documents inserted, store queries made, the identifier     *)
(* allocated, what was shown, the session before the step and the day of   *)
(* the step.  A step is taken from the prompt, and the loop then returns   *)
(* to the prompt.                                                          *)
(***************************************************************************)
Step(op, text, branch, cmd, in, ran, result, inserts, lookups, newid, out) ==
    [op |-> op, text |-> text, branch |-> branch, cmd |-> cmd, in |-> in,
     ran |-> ran, result |-> result, inserts |-> inserts, lookups |-> lookups,
     newid |-> newid, out |-> out,
     pre_user |-> current_user, pre_type |-> user_type, at |-> now]

\* the loop waits at its prompt: no step to record
AtPrompt ==
    [op |-> "prompt", text |-> "", branch |-> "", cmd |-> "", in |-> NoInput,
     ran |-> <<>>, result |-> "", inserts |-> 0, lookups |-> 0,
     newid |-> "", out |-> <<>>, pre_user |-> None, pre_type |-> NoType,
     at |-> 0]

\* further chatbot processes on the same store: each has its own logged-in
\* user, and may stand between the allocator's read and its insert_one,
\* holding the identifier computed from what it read (seen) and the
\* document built with it
Sessions == {1, 2}

IdlePeer ==
    [cu |-> None, ut |-> NoType, stage |-> "idle", coll |-> "", seen |-> "",
     newid |-> "", doc |-> None]

NoPeers == [s \in Sessions |-> IdlePeer]

Init ==
    /\ current_user = None
    /\ user_type = NoType
    /\ db = AgedStore
    /\ running = TRUE
    /\ now = 0
    /\ writes = 0
    /\ last = AtPrompt
    /\ peer = NoPeers

\* the input line as the loop reads it, and the branch it takes, per line
Normal == [raw \in Utterances |-> Lower(Strip(raw))]
Branch == [raw \in Utterances |-> [logged_in \in BOOLEAN |-> StartBranch(raw, logged_in)]]
Matched ==
    [raw \in Utterances |-> [logged_in \in BOOLEAN |-> [ut \in Roles \cup {NoType} |->
        MatchCommand(Normal[raw], logged_in, ut)]]]

\* the session part of a step that moves to the session state s
SessionStep(text, branch, in, s) ==
    /\ current_user' = s.cu
    /\ user_type' = s.ut
    /\ last' = Step("say", text, branch, "", in, <<>>, s.result, 0,
                    s.lookups, "", <<>>)
    /\ UNCHANGED <<db, now, writes, peer>>

\* a loop without the except clause: an exception ends it
StoreStep_crashing(op, text, branch, cmd, in, r) ==
    /\ db' = r.db
    /\ writes' = writes + (TotalDocs(r.db) - TotalDocs(db))
    /\ writes' <= MaxWrites
    /\ last' = Step(op, text, branch, cmd, in, r.ran, r.result,
                    TotalDocs(r.db) - TotalDocs(db), r.lookups, r.newid, r.out)
    /\ running' = (r.result # "error")
    /\ UNCHANGED <<current_user, user_type, now, peer>>

\* the store part of a step that ran process_command or an executor
StoreStep(op, text, branch, cmd, in, r) ==
    /\ db' = r.db
    /\ writes' = writes + (TotalDocs(r.db) - TotalDocs(db))
    /\ writes' <= MaxWrites
    /\ last' = Step(op, text, branch, cmd, in, r.ran, r.result,
                    TotalDocs(r.db) - TotalDocs(db), r.lookups, r.newid, r.out)
    /\ UNCHANGED <<current_user, user_type, running, now, peer>>

BranchNow(raw) == Branch[raw][current_user # None]

\* an empty line, a greeting, thanks or an apology: answered, nothing else
SmallTalk(raw) ==
    /\ running /\ last = AtPrompt
    /\ BranchNow(raw) \in {"empty", "greeting", "thanks", "apology"}
    /\ SessionStep(Normal[raw], BranchNow(raw), NoInput, S(current_user, user_type, "chat", 0))
    /\ UNCHANGED running

\* "help" in user_input: show_help()
Help(raw) ==
    /\ running /\ last = AtPrompt
    /\ BranchNow(raw) = "help"
    /\ SessionStep(Normal[raw], "help", NoInput, S(current_user, user_type, "help", 0))
    /\ UNCHANGED running

\* "login" in user_input: handle_login()
Login(raw) ==
    /\ running /\ last = AtPrompt
    /\ BranchNow(raw) = "login"
    /\ \E in \in (IF current_user = None THEN LoginInputs ELSE {NoInput}) :
          SessionStep(Normal[raw], "login", in, handle_login(current_user, user_type, db, in))
    /\ UNCHANGED running

\* "logout" in user_input: handle_logout()
Logout(raw) ==
    /\ running /\ last = AtPrompt
    /\ BranchNow(raw) = "logout"
    /\ SessionStep(Normal[raw], "logout", NoInput, handle_logout(current_user, user_type))
    /\ UNCHANGED running

\* a farewell word in user_input: handle_exit() and the loop ends
Farewell(raw) ==
    /\ running /\ last = AtPrompt
    /\ BranchNow(raw) = "farewell"
    /\ SessionStep(Normal[raw], "farewell", NoInput, handle_exit(current_user, user_type))
    /\ running' = FALSE

\* KeyboardInterrupt at the prompt: handle_exit() and the loop ends
Interrupt ==
    /\ running /\ last = AtPrompt
    /\ SessionStep("", "interrupt", NoInput, handle_exit(current_user, user_type))
    /\ running' = FALSE

\* nobody is logged in: the user is asked to log in
PromptLogin(raw) ==
    /\ running /\ last = AtPrompt
    /\ BranchNow(raw) = "prompt_login"
    /\ SessionStep(Normal[raw], "prompt_login", NoInput,
                   S(current_user, user_type, "please_login", 0))
    /\ UNCHANGED running

\* process_command(user_input)
Process(raw) ==
    LET cmd == Matched[raw][current_user # None][user_type]
    IN  /\ running /\ last = AtPrompt
        /\ BranchNow(raw) = "process"
        /\ \E in \in InputsOf(cmd) :
              StoreStep("say", Normal[raw], "process", cmd, in,
                        process_command(current_user, user_type, db, now, Normal[raw], in))

\* an executor method called directly, outside the loop of start()
Call(cmd) ==
    /\ running /\ last = AtPrompt
    /\ \E in \in CallInputsOf(cmd) :
          StoreStep("call", "", "", cmd, in,
                    Exec(cmd, current_user, user_type, db, now, "", in))

\* the loop of start() comes round to input() again
Continue ==
    /\ running /\ last # AtPrompt
    /\ last' = AtPrompt
    /\ UNCHANGED <<current_user, user_type, db, running, now, writes, peer>>

\* a day passes, whatever is on the screen
Tick ==
    /\ running
    /\ now < MaxDay
    /\ now' = now + 1
    /\ UNCHANGED <<current_user, user_type, db, running, writes, last, peer>>

Next ==
    \/ \E raw \in Utterances : SmallTalk(raw)
    \/ \E raw \in Utterances : Help(raw)
    \/ \E raw \in Utterances : Login(raw)
    \/ \E raw \in Utterances : Logout(raw)
    \/ \E raw \in Utterances : Farewell(raw)
    \/ \E raw \in Utterances : PromptLogin(raw)
    \/ \E raw \in Utterances : Process(raw)
    \/ \E cmd \in Executors : Call(cmd)
    \/ Interrupt
    \/ Continue

Spec == Init /\ [][Next]_vars

\* the same session with the clock running
SpecClock == Init /\ [][Next \/ Tick]_vars

\* the same program started on a fresh, a used or an aged store, the user
\* typing only what the write workflows need
AllocLines ==
    {"login", "logout", "new prescription", "add note", "record medication",
     "add staff"}

InitAlloc ==
    /\ current_user = None
    /\ user_type = NoType
    /\ db \in {FreshStore, UsedStore, AgedStore}
    /\ running = TRUE
    /\ now = 0
    /\ writes = 0
    /\ last = AtPrompt
    /\ peer = NoPeers

NextAlloc ==
    \/ \E raw \in AllocLines : Login(raw)
    \/ \E raw \in AllocLines : Logout(raw)
    \/ \E raw \in AllocLines : Process(raw)
    \/ Continue

SpecAlloc == InitAlloc /\ [][NextAlloc]_vars

\* the collection and identifier field a write workflow allocates in
WriteKind(cmd) ==
    CASE cmd = "create_prescription" ->
            [coll |-> "prescriptions", field |-> "prescription_id"]
      [] cmd = "add_note" -> [coll |-> "note_events", field |-> "note_id"]
      [] cmd = "record_administration" ->
            [coll |-> "medication_administration", field |-> "event_id"]

PeerLogins ==
    {[NoInput EXCEPT !.staff_id = "DOC_001", !.name = "Jane Doe"],
     [NoInput EXCEPT !.staff_id = "NUR_001", !.name = "Ann Lee"]}

\* handle_login() in process s
PeerLogin(s) ==
    /\ peer[s].cu = None
    /\ \E in \in PeerLogins :
          LET r == handle_login(peer[s].cu, peer[s].ut, db, in)
          IN  peer' = [peer EXCEPT ![s].cu = r.cu, ![s].ut = r.ut]
    /\ UNCHANGED <<current_user, user_type, db, running, now, writes, last>>

\* process s runs a write workflow as far as the allocator: the lookups
\* pass, the greatest identifier is read and the new document is built
PeerAllocate(s, cmd) ==
    /\ peer[s].cu # None /\ peer[s].stage # "allocated"
    /\ \E in \in CallInputsOf(cmd) :
          LET r == Exec(cmd, peer[s].cu, peer[s].ut, db, now, "", in)
              k == WriteKind(cmd)
              top == find_one_sorted_desc(db[k.coll], k.field)
          IN  /\ r.result = "ok"
              /\ peer' = [peer EXCEPT ![s].stage = "allocated",
                                      ![s].coll = k.coll,
                                      ![s].seen = IF top = None THEN "" ELSE top[k.field],
                                      ![s].newid = r.newid,
                                      ![s].doc = r.db[k.coll][Len(r.db[k.coll])]]
    /\ UNCHANGED <<current_user, user_type, db, running, now, writes, last>>

\* an insert that allocates the identifier afresh as it writes
InsertPending_fresh(d, p) ==
    LET field == CHOOSE f \in {"prescription_id", "note_id", "event_id"} : Has(p.doc, f)
        plen == IndexOf("_", p.newid)
        id == NextId(d[p.coll], field, SliceTo(p.newid, plen), plen)
    IN  insert_one(d, p.coll, [p.doc EXCEPT ![field] = id])

\* the insert_one of the workflow, with the document built before it
InsertPending(d, p) == insert_one(d, p.coll, p.doc)

\* process s reaches its insert_one
PeerInsert(s) ==
    /\ peer[s].stage = "allocated"
    /\ writes < MaxWrites
    /\ db' = InsertPending(db, peer[s])
    /\ writes' = writes + 1
    /\ peer' = [peer EXCEPT ![s].stage = "done"]
    /\ UNCHANGED <<current_user, user_type, running, now, last>>

\* two chatbot processes on a store already in use, or still fresh
InitPeers ==
    /\ current_user = None
    /\ user_type = NoType
    /\ db \in {FreshStore, UsedStore}
    /\ running = TRUE
    /\ now = 0
    /\ writes = 0
    /\ last = AtPrompt
    /\ peer = NoPeers

NextPeers ==
    \/ \E s \in Sessions : PeerLogin(s)
    \/ \E s \in Sessions :
          \E cmd \in {"create_prescription", "add_note", "record_administration"} :
              PeerAllocate(s, cmd)
    \/ \E s \in Sessions : PeerInsert(s)

SpecPeers == InitPeers /\ [][NextPeers]_vars

\* the used store with one more admission: PAT_002 is to be admitted to
\* Cardiology on day 1, and already has a prescription for that admission
WardStore ==
    [UsedStore EXCEPT
        !.admissions = Append(@, [admission_id |-> "ADM_003", patient_id |-> "PAT_002",
                                  department |-> "Cardiology", doctor |-> "Jane Doe",
                                  admission_date |-> 1]),
        !.prescriptions = Append(@, [OldPrescription(5) EXCEPT
                                        !.admission_id = "ADM_003",
                                        !.patient_id = "PAT_002"])]

\* the nurse of Cardiology is logged in on the ward's store
InitWard ==
    /\ current_user = handle_login(None, NoType, BaseStore,
                                   [NoInput EXCEPT !.staff_id = "NUR_001",
                                                   !.name = "Ann Lee"]).cu
    /\ user_type = "nurse"
    /\ db = WardStore
    /\ running = TRUE
    /\ now = 0
    /\ writes = 0
    /\ last = AtPrompt
    /\ peer = NoPeers

\* the nurse asks for the medication list and records administrations, and
\* days pass
NextWard ==
    \/ \E raw \in {"medication list", "record medication"} : Process(raw)
    \/ Continue
    \/ Tick

SpecWard == InitWard /\ [][NextWard]_vars

\* a document with the category field set to a value, set to null (written
\* "None"), or, for "-", left out
WithCategory(doc, field, value) ==
    IF value = "-" THEN doc ELSE (field :> value) @@ doc

\* the patients collections of up to MaxReportDocs patients, each of gender
\* M, F, null or with no gender field
PatientsDrawn ==
    UNION {{[i \in 1..n |->
                WithCategory([patient_id |-> "PAT_" \o ZeroPad(i, 3), name |-> "John Doe",
                              dob |-> 0, contact |-> "555-0111"], "gender", g[i])] :
               g \in [1..n -> {"M", "F", "None", "-"}]} :
           n \in 0..MaxReportDocs}

\* the applications collections of up to two applications, with or without
\* a status and a test type
ApplicationsDrawn ==
    UNION {{[i \in 1..n |->
                WithCategory(
                    WithCategory([application_id |-> "APP_" \o ZeroPad(i, 3),
                                  patient_id |-> "PAT_001", created_at |-> 0],
                                 "status", a[i][1]),
                    "test_type", a[i][2])] :
               a \in [1..n -> {<<"Pending", "Blood">>, <<"Pending", "-">>,
                               <<"None", "Blood">>, <<"Approved", "Urine">>}]} :
           n \in 0..2}

\* an administrator is logged in, on a store whose patients and applications
\* are drawn from the collections above
InitReport ==
    /\ current_user = handle_login(None, NoType, BaseStore,
                                   [NoInput EXCEPT !.staff_id = "ADM_001",
                                                   !.name = "Sam Roe"]).cu
    /\ user_type = "admin"
    /\ \E ps \in PatientsDrawn, as \in ApplicationsDrawn :
          db = [BaseStore EXCEPT !.patients = ps, !.applications = as]
    /\ running = TRUE
    /\ now = 0
    /\ writes = 0
    /\ last = AtPrompt
    /\ peer = NoPeers

NextReport ==
    \/ \E raw \in {"generate report", "create report"} : Process(raw)
    \/ Continue

SpecReport == InitReport /\ [][NextReport]_vars

\* the executors that only read the store
ReadOnly ==
    {"search_patient", "patient_details", "admission_history", "view_schedule",
     "medication_list", "view_applications"}

\* the same session over days, the user asking for the listings, by phrase
\* or by a direct call, between two writes
ReadLines ==
    {"login", "logout", "search patient", "patient details", "admission history",
     "my schedule", "medication list", "view tests", "new prescription",
     "record medication"}

NextReads ==
    \/ \E raw \in ReadLines : Login(raw)
    \/ \E raw \in ReadLines : Logout(raw)
    \/ \E raw \in ReadLines : Process(raw)
    \/ \E cmd \in ReadOnly : Call(cmd)
    \/ Continue
    \/ Tick

SpecReads == Init /\ [][NextReads]_vars

(***************************************************************************)
(* Properties.                                                             *)
(***************************************************************************)
\* the role whose phrase table registers the command
OwnerOf(c) == CHOOSE r \in Roles : \E i \in 1..Len(commands[r]) : commands[r][i].cmd = c

\* the phrases registered for a command of a table
PhrasesOfCmd(tb, c) ==
    UNION {{commands[tb][i].phrases[k] : k \in 1..Len(commands[tb][i].phrases)} :
              i \in {j \in 1..Len(commands[tb]) : commands[tb][j].cmd = c}}

\* the body of executor c ran in the step just taken
Ran(c) == \E i \in 1..Len(last.ran) : last.ran[i] = c

SessionUnchanged == current_user = last.pre_user /\ user_type = last.pre_type

\* executor c was invoked in the step just taken: called directly, or asked
\* for with one of its phrases
Invoked(c) ==
    \/ last.op = "call" /\ last.cmd = c
    \/ last.op = "say" /\ last.text \in PhrasesOfCmd(OwnerOf(c), c)

\* C1: a role-specific command invoked while a user of another role is
\* logged in is rejected: its body does not run, nothing is inserted and the
\* session is as it was.
C1_RoleMismatchRejected ==
    \A c \in Executors :
        (/\ last.pre_user # None
         /\ last.pre_type # OwnerOf(c)
         /\ Invoked(c))
        => (~Ran(c) /\ last.inserts = 0 /\ SessionUnchanged)

\* a nurse calls cmd_create_prescription and is turned away
C1_NurseDenied ==
    /\ last.op = "call" /\ last.cmd = "create_prescription"
    /\ last.pre_user # None /\ last.pre_type = "nurse"
    /\ last.result = "denied" /\ last.inserts = 0

\* the collections whose documents carry an allocated identifier, with the
\* identifier field and its prefix
IdKinds ==
    {[coll |-> "prescriptions", field |-> "prescription_id", prefix |-> "PR_"],
     [coll |-> "note_events", field |-> "note_id", prefix |-> "NOTE_"],
     [coll |-> "medication_administration", field |-> "event_id", prefix |-> "MME_"],
     [coll |-> "doctors", field |-> "doctor_id", prefix |-> "DOC_"],
     [coll |-> "nurses", field |-> "nurse_id", prefix |-> "NUR_"],
     [coll |-> "admins", field |-> "admin_id", prefix |-> "ADM_"]}

\* the kind of the identifier allocated in the step just taken (the kind of
\* the collection the workflow queries and writes)
AllocKind ==
    LET c == last.ran[Len(last.ran)]
        coll == CASE c = "create_prescription" -> "prescriptions"
                  [] c = "add_note" -> "note_events"
                  [] c = "record_administration" -> "medication_administration"
                  [] c = "add_staff" -> Lower(Strip(last.in.staff_type)) \o "s"
    IN  CHOOSE k \in IdKinds : k.coll = coll

\* the identifiers the collection held before the step just taken
IdsBefore ==
    LET coll == db[AllocKind.coll]
        before == IF last.inserts = 1 THEN SubSeq(coll, 1, Len(coll) - 1) ELSE coll
    IN  Column(before, AllocKind.field)

\* the sequence number an identifier carries after its prefix
SeqNo(id, prefix) == ParseInt(SliceFrom(id, Len(prefix)))

\* C2: no two documents of a collection carry the same identifier, and an
\* allocated sequence number is greater than every sequence number the
\* collection already held.
C2_UniqueIncreasing ==
    /\ \A k \in IdKinds :
          \A i, j \in 1..Len(db[k.coll]) :
              i # j => db[k.coll][i][k.field] # db[k.coll][j][k.field]
    /\ last.newid # "" =>
          \A i \in 1..Len(IdsBefore) :
              SeqNo(last.newid, AllocKind.prefix) > SeqNo(IdsBefore[i], AllocKind.prefix)

PatientExists(pid) == \E i \in 1..Len(db.patients) : db.patients[i].patient_id = pid

AdmissionExists(aid) ==
    \E i \in 1..Len(db.admissions) : db.admissions[i].admission_id = aid

AdmissionOf(aid, pid) ==
    \E i \in 1..Len(db.admissions) :
        db.admissions[i].admission_id = aid /\ db.admissions[i].patient_id = pid

\* the identifiers typed in the step just taken, as the executors read them
TypedPatient == Upper(Strip(last.in.patient_id))
TypedAdmission == Upper(Strip(last.in.admission_id))

\* C3: every prescription references an existing patient and an existing
\* admission of that patient, every note an existing admission and its
\* patient, every administration event an existing patient and prescription;
\* a workflow whose lookup misses inserts nothing.
C3_ReferencesExist ==
    /\ \A i \in 1..Len(db.prescriptions) :
          /\ PatientExists(db.prescriptions[i].patient_id)
          /\ AdmissionOf(db.prescriptions[i].admission_id, db.prescriptions[i].patient_id)
    /\ \A i \in 1..Len(db.note_events) :
          AdmissionOf(db.note_events[i].admission_id, db.note_events[i].patient_id)
    /\ \A i \in 1..Len(db.medication_administration) :
          /\ PatientExists(db.medication_administration[i].patient_id)
          /\ \E j \in 1..Len(db.prescriptions) :
                db.prescriptions[j].prescription_id =
                    db.medication_administration[i].prescription_id
    /\ (Ran("create_prescription")
        /\ ~(PatientExists(TypedPatient) /\ AdmissionOf(TypedAdmission, TypedPatient)))
       => last.inserts = 0
    /\ (Ran("add_note") /\ ~AdmissionExists(TypedAdmission)) => last.inserts = 0
    /\ (Ran("record_administration") /\ ~PatientExists(TypedPatient))
       => last.inserts = 0

\* a nurse has just recorded an administration of an existing prescription
C3_EventWritten ==
    /\ last.ran = <<"record_administration">> /\ last.inserts = 1
    /\ db.medication_administration[Len(db.medication_administration)].event_id
           = last.newid

\* create_prescription ran for an existing patient and an admission that is
\* not that patient's
C4_Case ==
    /\ last.ran = <<"create_prescription">>
    /\ PatientExists(TypedPatient)
    /\ ~AdmissionOf(TypedAdmission, TypedPatient)

\* C4 as claimed: create_prescription for an existing patient and an
\* admission_id that no admission of that patient carries fails as not
\* found, allocates no identifier and inserts nothing.
C4_AlwaysNotFound ==
    C4_Case => (last.result = "not_found" /\ last.newid = "" /\ last.inserts = 0)

\* C4 as amended: in that case no identifier is allocated and nothing is
\* inserted; the failure is not-found when the admission_id starts with
\* ADM_, and an invalid-format rejection when it does not.
C4_NotFoundOrInvalid ==
    C4_Case =>
        /\ last.newid = "" /\ last.inserts = 0
        /\ StartsWith(TypedAdmission, "ADM_") => last.result = "not_found"
        /\ ~StartsWith(TypedAdmission, "ADM_") => last.result = "invalid"

\* a prescription refused because the admission belongs to another patient
C4_OtherPatientsAdmission ==
    /\ C4_Case /\ AdmissionExists(TypedAdmission)
    /\ last.result = "not_found"

\* the staff id and name typed at the login prompts, as handle_login reads them
TypedStaffId == Upper(Strip(last.in.staff_id))
TypedName == Title(Strip(last.in.name))

\* the role each known staff id prefix stands for, and the collection and
\* identifier field of that role's staff members
KnownPrefixes ==
    {[prefix |-> "DOC_", role |-> "doctor", coll |-> "doctors", field |-> "doctor_id"],
     [prefix |-> "NUR_", role |-> "nurse", coll |-> "nurses", field |-> "nurse_id"],
     [prefix |-> "ADM_", role |-> "admin", coll |-> "administrators", field |-> "admin_id"]}

HasKnownPrefix(id) == \E k \in KnownPrefixes : StartsWith(id, k.prefix)

KindOfPrefix(id) == CHOOSE k \in KnownPrefixes : StartsWith(id, k.prefix)

\* the staff members of a kind that carry the id and the name
StaffWith(k, id, name) ==
    {i \in 1..Len(db[k.coll]) :
        FieldIs(db[k.coll][i], k.field, id) /\ FieldIs(db[k.coll][i], "name", name)}

\* C5: a login from the anonymous session with a staff id of a known prefix
\* authenticates the session, in the role of the prefix, exactly when a staff
\* member with the upper-cased id and the title-cased name is in the role's
\* collection; the session then holds that member's id, name, role,
\* department and contact.  A login attempted while somebody is logged in
\* does not succeed and leaves the session as it was.
C5_LoginIffStaffExists ==
    last.branch = "login" =>
        /\ (last.pre_user = None /\ HasKnownPrefix(TypedStaffId)) =>
              LET k == KindOfPrefix(TypedStaffId)
                  members == StaffWith(k, TypedStaffId, TypedName)
              IN  /\ (current_user # None /\ user_type = k.role) <=> members # {}
                  /\ current_user # None => last.result = "ok"
                  /\ current_user # None =>
                        \E i \in members :
                            LET m == db[k.coll][i]
                            IN  /\ current_user.id = m[k.field]
                                /\ current_user.name = m.name
                                /\ current_user.type = k.role
                                /\ Has(m, "department") =>
                                      current_user.department = m.department
                                /\ Has(m, "contact") => current_user.contact = m.contact
        /\ last.pre_user # None => (last.result # "ok" /\ SessionUnchanged)

\* a doctor has logged in with the id in lower case and the name in lower case
C5_DoctorLoggedIn ==
    /\ last.branch = "login" /\ last.pre_user = None
    /\ last.in.staff_id = "doc_001" /\ last.in.name = "jane doe"
    /\ last.result = "ok"
    /\ current_user # None /\ user_type = "doctor"
    /\ current_user.contact = "555-0101"

\* C6: a login with a staff id that starts with none of DOC_, NUR_, ADM_ is
\* rejected, asks the store nothing, and leaves the logged-in user and the
\* role exactly as they were.
C6_UnknownPrefixRejected ==
    (last.branch = "login" /\ ~HasKnownPrefix(TypedStaffId)) =>
        /\ last.result # "ok"
        /\ last.lookups = 0
        /\ SessionUnchanged

\* a login with the staff id XYZ_001 has been turned away for its prefix
C6_BadPrefixTyped ==
    /\ last.branch = "login" /\ last.pre_user = None
    /\ TypedStaffId = "XYZ_001" /\ TypedName # ""
    /\ last.result = "bad_prefix"

\* the greatest identifier of a non-empty column, in the order of the sort
GreatestId(ids) ==
    CHOOSE x \in {ids[i] : i \in 1..Len(ids)} :
        \A j \in 1..Len(ids) : ~StrLess(x, ids[j])

\* C7: the identifier a write workflow allocates is prefix + "001" when the
\* collection is empty, and prefix + zeroPad(N+1, 3) when the greatest
\* identifier of the collection is prefix + zeroPad(N, 3).
C7_AllocatorSuccessor ==
    last.newid # "" =>
        LET k == AllocKind
            ids == IdsBefore
        IN  /\ ids = <<>> => last.newid = k.prefix \o "001"
            /\ ids # <<>> =>
                  LET top == GreatestId(ids)
                      N == SeqNo(top, k.prefix)
                  IN  top = k.prefix \o ZeroPad(N, 3)
                      => last.newid = k.prefix \o ZeroPad(N + 1, 3)

\* a prescription written to a collection whose greatest identifier was
\* PR_007 has been given PR_008
C7_AfterSevenComesEight ==
    /\ last.ran = <<"create_prescription">> /\ last.inserts = 1
    /\ IdsBefore # <<>> /\ GreatestId(IdsBefore) = "PR_007"
    /\ last.newid = "PR_008"
    /\ db.prescriptions[Len(db.prescriptions)].prescription_id = "PR_008"

\* C8: while a user is logged in, a line that contains a phrase registered
\* for logout or for exit leaves nobody logged in, and one that contains a
\* phrase registered for exit also ends the loop.
C8_LogoutPhraseLogsOut ==
    (last.op = "say" /\ last.pre_user # None) =>
        /\ (AnyPhraseIn(commands.common[3].phrases, last.text)
            \/ AnyPhraseIn(commands.common[4].phrases, last.text))
           => current_user = None
        /\ AnyPhraseIn(commands.common[4].phrases, last.text) => ~running

\* C9: a logged-in user of role r who types a phrase registered for command
\* c of role r's table, the phrase containing no phrase of the common table,
\* gets the body of c's executor run.
C9_PhraseRunsCommand ==
    \A r \in Roles : \A i \in 1..Len(commands[r]) :
        (/\ last.op = "say"
         /\ last.pre_user # None /\ last.pre_type = r
         /\ last.text \in PhrasesOfCmd(r, commands[r][i].cmd)
         /\ ~\E p \in PhrasesOf(commands.common) : Contains(last.text, p))
        => Ran(commands[r][i].cmd)

\* the handlers that ran for the line just typed: the one a branch of the
\* loop calls itself, or the executor bodies process_command reached
HandlersRun ==
    CASE last.branch = "help" -> <<"help">>
      [] last.branch = "login" -> <<"login">>
      [] last.branch = "logout" -> <<"logout">>
      [] last.branch = "farewell" -> <<"exit">>
      [] OTHER -> last.ran

\* the first command, common table then the role's table, in declaration
\* order, one of whose phrases the line contains
FirstRegistered(text, role) ==
    IF FirstMatch(commands.common, text) # "" THEN FirstMatch(commands.common, text)
    ELSE FirstMatch(TableOf(role), text)

\* C10: for a line that contains registered phrases, typed by a logged-in
\* user, the command dispatched is the first match in the order common table
\* then the role's table, and exactly that one handler runs.
C10_FirstMatchAlone ==
    (/\ last.op = "say"
     /\ last.pre_user # None
     /\ FirstRegistered(last.text, last.pre_type) # "")
    => HandlersRun = <<FirstRegistered(last.text, last.pre_type)>>

\* the line just typed contains a phrase of the common table or, with a
\* user logged in, of that user's role table
ContainsRegistered ==
    \/ FirstMatch(commands.common, last.text) # ""
    \/ last.pre_user # None /\ FirstMatch(TableOf(last.pre_type), last.text) # ""

\* the line just typed contains a farewell, a greeting, thanks or an apology
ContainsSmallTalk ==
    \E kind \in DOMAIN responses : check_response_type(last.text, kind)

\* a line was typed that contains no registered phrase
C11_Case ==
    /\ last.op = "say" /\ last.branch # "interrupt"
    /\ last.text # ""
    /\ ~ContainsRegistered

\* the step only prompted to log in (nobody logged in) or only reported that
\* the line was not understood (somebody logged in), and changed nothing
C11_Effect ==
    /\ UNCHANGED <<current_user, user_type, db, running>>
    /\ current_user = None => last'.result = "please_login"
    /\ current_user # None => last'.result = "unrecognized"

\* C11 as claimed: a line that contains no phrase registered for a command
\* only prompts to log in, or only reports unrecognized, and leaves the
\* session and every collection as they were.
C11_NoPhraseNoEffect == [][C11_Case' => C11_Effect]_vars

\* C11 as amended: the same for a line that contains no registered phrase
\* and no farewell, greeting, thanks or apology word either.
C11_NoPhraseNoSmallTalkNoEffect ==
    [][(C11_Case' /\ ~ContainsSmallTalk') => C11_Effect]_vars

\* a logged-in user typed a line nobody understands
C11_UnrecognizedTyped ==
    /\ last.op = "say" /\ last.text = "xyzzy"
    /\ last.pre_user # None /\ last.result = "unrecognized"
    /\ SessionUnchanged

\* the step just taken ran listings and nothing else
ReadOnlyStep ==
    /\ last.ran # <<>>
    /\ \A i \in 1..Len(last.ran) : last.ran[i] \in ReadOnly

\* the invocation of the step just taken, made again now
Replay ==
    IF last.op = "call"
    THEN Exec(last.cmd, current_user, user_type, db, now, "", last.in)
    ELSE process_command(current_user, user_type, db, now, last.text, last.in)

ReplaySame ==
    /\ Replay.ran = last.ran
    /\ Replay.result = last.result
    /\ Replay.out = last.out

\* a step that ran only listings changed no collection and not the session
ReadOnlyFrame ==
    ReadOnlyStep' /\ last' # last => UNCHANGED <<db, current_user, user_type>>

\* C12 as claimed: the read-only commands leave every collection and the
\* session unchanged, and the same invocation made again with no write in
\* between returns the same result.
C12_ReadsRepeat ==
    /\ [](ReadOnlyStep => ReplaySame)
    /\ [][ReadOnlyFrame]_vars

\* C12 as amended: the same, for an invocation made again on the same day.
C12_ReadsRepeatSameDay ==
    /\ []((ReadOnlyStep /\ last.at = now) => ReplaySame)
    /\ [][ReadOnlyFrame]_vars

\* a doctor has been shown a schedule with an admission on it
C12_ScheduleShown ==
    /\ last.ran = <<"view_schedule">> /\ last.result = "ok"
    /\ last.out # <<>> /\ last.at = now
    /\ ReplaySame

\* every document of the collection is still there, as it was and where it
\* was
Kept(c) ==
    /\ Len(db'[c]) >= Len(db[c])
    /\ SubSeq(db'[c], 1, Len(db[c])) = db[c]

\* C13: no step removes or changes a document of any collection; a
\* collection only grows.
C13_AppendOnly == [][\A c \in Collections : Kept(c)]_vars

\* a prescription has been added after the two the store already held
C13_Appended ==
    /\ last.ran = <<"create_prescription">> /\ last.inserts = 1
    /\ Len(db.prescriptions) = 3
    /\ SubSeq(db.prescriptions, 1, 2) = AgedStore.prescriptions
    /\ db.prescriptions[3].prescription_id = last.newid

\* the documents of a collection that carry the identifier a process holds
Carrying(p) ==
    {i \in 1..Len(db[p.coll]) :
        \E f \in {"prescription_id", "note_id", "event_id"} :
            FieldIs(db[p.coll][i], f, p.newid)}

\* C14: two processes that read the same greatest identifier of a collection
\* hold the same new identifier, and once both have inserted, the collection
\* holds two documents with it: the allocation is a read followed by an
\* insert, not one atomic step.
C14_SameReadSameIdentifier ==
    \A s, t \in Sessions :
        (/\ s # t
         /\ peer[s].stage # "idle" /\ peer[t].stage # "idle"
         /\ peer[s].coll = peer[t].coll
         /\ peer[s].seen = peer[t].seen)
        => /\ peer[s].newid = peer[t].newid
           /\ (peer[s].stage = "done" /\ peer[t].stage = "done")
              => Cardinality(Carrying(peer[s])) >= 2

\* two doctors have both written a prescription PR_008
C14_DuplicateWritten ==
    /\ peer[1].stage = "done" /\ peer[2].stage = "done"
    /\ peer[1].coll = "prescriptions" /\ peer[2].coll = "prescriptions"
    /\ peer[1].seen = "PR_007" /\ peer[2].seen = "PR_007"
    /\ peer[1].newid = "PR_008" /\ peer[2].newid = "PR_008"
    /\ \E i, j \in 1..Len(db.prescriptions) :
          /\ i # j
          /\ db.prescriptions[i].prescription_id = "PR_008"
          /\ db.prescriptions[j].prescription_id = "PR_008"

\* the line just typed raised an exception: one the loop of start() caught,
\* or a failed insert the executor caught itself
ErrorStep ==
    /\ last.op = "say"
    /\ last.result \in {"error", "insert_error"}

\* the loop ends with this step
LoopEnds == running /\ ~running'

CategoryOf(doc, field) ==
    IF Has(doc, field) /\ doc[field] # "None" THEN doc[field] ELSE "Unknown"

\* the mapping a report is to show: each category of the collection with the
\* number of its documents
Tally(coll, field) ==
    {<<c, Cardinality({i \in 1..Len(coll) : CategoryOf(coll[i], field) = c})>> :
        c \in {CategoryOf(coll[i], field) : i \in 1..Len(coll)}}

RECURSIVE SumCounts(_)
SumCounts(entries) ==
    IF entries = <<>> THEN 0 ELSE Head(entries)[2] + SumCounts(Tail(entries))

\* the entries are the mapping, one entry per category, and their counts
\* add up to the collection
ShowsTally(entries, coll, field) ==
    /\ {entries[i] : i \in 1..Len(entries)} = Tally(coll, field)
    /\ Len(entries) = Cardinality(Tally(coll, field))
    /\ SumCounts(entries) = Len(coll)

\* C16: a report shows, for its category field, one entry per distinct
\* category with the number of its documents, the documents with no or a
\* null category under the one key Unknown, and the counts add up to the
\* number of documents of the collection.
C16_ReportTally ==
    (Ran("generate_report") /\ last.result = "ok") =>
        LET report_type == Lower(Strip(last.in.text))
            k == Cardinality(Tally(db.applications, "status"))
        IN  /\ report_type = "patients" => ShowsTally(last.out, db.patients, "gender")
            /\ report_type = "admissions" =>
                  ShowsTally(last.out, db.admissions, "department")
            /\ report_type = "tests" =>
                  /\ Len(last.out) >= k
                  /\ ShowsTally(SubSeq(last.out, 1, k), db.applications, "status")
                  /\ ShowsTally(SubSeq(last.out, k + 1, Len(last.out)),
                                db.applications, "test_type")

\* a report over patients of gender M, M and null shows M: 2, Unknown: 1
C16_TwoAndUnknown ==
    /\ Ran("generate_report") /\ last.result = "ok"
    /\ Lower(Strip(last.in.text)) = "patients"
    /\ Len(db.patients) = 3
    /\ {last.out[i] : i \in 1..Len(last.out)} = {<<"M", 2>>, <<"Unknown", 1>>}

\* a search by a doctor came back with its list, and no patient was then
\* selected for details
SearchListed ==
    /\ last.pre_user # None /\ last.pre_type = "doctor"
    /\ last.ran = <<"search_patient">>
    /\ last.result \in {"ok", "not_found"}

\* the patients whose name contains q, whatever the case of the letters
NameContains(q) ==
    {db.patients[i].patient_id :
        i \in {j \in 1..Len(db.patients) :
                  Contains(Lower(db.patients[j].name), Lower(q))}}

\* C17: a search by a doctor lists exactly the patients whose name contains
\* the text searched for, compared without regard to case: none of them is
\* left out and no other patient is listed.
C17_ExactlyTheSubstringMatches ==
    SearchListed =>
        {last.out[i] : i \in 1..Len(last.out)} = NameContains(Strip(last.in.text))

\* the search for "doe" listed John Doe alone
C17_DoeFound ==
    /\ SearchListed
    /\ Strip(last.in.text) = "doe"
    /\ last.out = <<"PAT_001">>

\* cmd_patient_details ran in the step just taken, for a logged-in doctor
DetailsRan ==
    /\ last.pre_user # None /\ last.pre_type = "doctor"
    /\ last.ran # <<>> /\ last.ran[Len(last.ran)] = "patient_details"
    /\ last.result \in {"ok", "not_found"}

\* where, in what a search printed, the details of the selected patient
\* begin: the first place after the list at which the selected patient is
\* named again
DetailsFrom ==
    IF Head(last.ran) = "search_patient"
    THEN LET sel == ParseInt(Strip(last.in.selection))
         IN  CHOOSE j \in (sel + 1)..Len(last.out) :
                /\ last.out[j] = last.out[sel]
                /\ \A k \in (sel + 1)..(j - 1) : last.out[k] # last.out[sel]
    ELSE 1

\* the patient id cmd_patient_details worked with: the one selected from
\* the search list, the line the router passed on, or the one typed
DetailsId ==
    IF Head(last.ran) = "search_patient" THEN last.out[ParseInt(Strip(last.in.selection))]
    ELSE IF last.op = "say" THEN last.text
    ELSE Upper(Strip(last.in.patient_id))

\* what the details showed
DetailsShown ==
    IF last.out = <<>> THEN {}
    ELSE {last.out[i] : i \in DetailsFrom..Len(last.out)}

\* the admissions of a patient, and the identifiers of the documents of a
\* collection that belong to one of them
AdmissionsOfPatient(pid) ==
    {db.admissions[i].admission_id :
        i \in {j \in 1..Len(db.admissions) : db.admissions[j].patient_id = pid}}

OfAdmissions(coll, idfield, adms) ==
    {db[coll][i][idfield] :
        i \in {j \in 1..Len(db[coll]) : db[coll][j].admission_id \in adms}}

\* C18: the details of a patient, asked for by a logged-in doctor, show that
\* patient, exactly the admissions of that patient, and exactly the diagnoses
\* and prescriptions of those admissions; for a patient id the store does
\* not hold the answer is not-found and nothing is shown.
C18_DetailsExact ==
    DetailsRan =>
        IF \E i \in 1..Len(db.patients) : db.patients[i].patient_id = DetailsId
        THEN /\ last.result = "ok"
             /\ DetailsShown =
                   {DetailsId}
                   \cup AdmissionsOfPatient(DetailsId)
                   \cup OfAdmissions("diagnoses", "diagnosis_id",
                                     AdmissionsOfPatient(DetailsId))
                   \cup OfAdmissions("prescriptions", "prescription_id",
                                     AdmissionsOfPatient(DetailsId))
        ELSE last.result = "not_found" /\ last.out = <<>>

\* the details of PAT_001 were shown with its admission, the diagnosis and
\* a prescription of that admission, and not the admission of PAT_002
C18_HistoryShown ==
    /\ DetailsRan /\ last.result = "ok"
    /\ DetailsId = "PAT_001"
    /\ {"PAT_001", "ADM_001", "DIA_001", "PR_999"} \subseteq DetailsShown
    /\ "ADM_002" \notin DetailsShown

\* a login was attempted from the prompt with a staff id that is shorter
\* than five characters or has no "_" in it
MalformedIdTyped ==
    /\ last.branch = "login"
    /\ last.pre_user = None
    /\ LET staff_id == Upper(Strip(last.in.staff_id))
       IN  Len(staff_id) < 5 \/ ~Contains(staff_id, "_")

\* C19: a login from the prompt with a staff id of fewer than five
\* characters, or with no "_" in it, is rejected: nobody is logged in, no
\* part of the session has changed and the store was not asked.
C19_MalformedIdRejected ==
    MalformedIdTyped =>
        /\ last.result # "ok"
        /\ SessionUnchanged
        /\ last.lookups = 0

\* the staff id AB, which has no "_", was rejected with the session as it
\* was and without a lookup
C19_NoSeparatorRejected ==
    /\ MalformedIdTyped
    /\ Upper(Strip(last.in.staff_id)) = "AB"
    /\ last.result = "bad_prefix"
    /\ SessionUnchanged /\ last.lookups = 0

\* the insert of a write workflow failed after its identifier was allocated
InsertFailed == last.result = "insert_error" /\ last.newid # ""

\* the identifier the allocator of a kind gives on the store as it is now
AllocatorNow(k) == NextId(db[k.coll], k.field, k.prefix, Len(k.prefix))

\* the collection of a kind grew in this step: by one document, which
\* carries the identifier the allocator gave on the collection as it was,
\* an identifier no document of the collection carried
CreatedWithAllocated(k) ==
    db'[k.coll] # db[k.coll] =>
        /\ Len(db'[k.coll]) = Len(db[k.coll]) + 1
        /\ SubSeq(db'[k.coll], 1, Len(db[k.coll])) = db[k.coll]
        /\ db'[k.coll][Len(db'[k.coll])][k.field] = AllocatorNow(k)
        /\ \A i \in 1..Len(db[k.coll]) : db[k.coll][i][k.field] # AllocatorNow(k)

\* C20: when the insert of a write workflow fails after the identifier was
\* allocated, the store is as it was and holds no document with that
\* identifier, the user is still logged in as before, and the allocator of
\* that kind still gives that identifier; a collection changes only by a
\* creation of its kind, which writes the identifier the allocator gave and
\* no identifier the collection already held.  So the next successful
\* creation of the kind is given the identifier of the failed one, and no
\* duplicate arises.
C20_FailedInsertFreesIdentifier ==
    /\ [](InsertFailed =>
            /\ last.inserts = 0
            /\ \A i \in 1..Len(db[AllocKind.coll]) :
                  db[AllocKind.coll][i][AllocKind.field] # last.newid
            /\ current_user # None /\ SessionUnchanged
            /\ AllocatorNow(AllocKind) = last.newid)
    /\ [][/\ InsertFailed' => db' = db
          /\ \A k \in IdKinds : CreatedWithAllocated(k)]_vars

\* the insert of a prescription failed after PR_008 was allocated: the store
\* holds no PR_008, the doctor is still logged in and the allocator gives
\* PR_008 again
C20_FailedThenSameIdentifier ==
    /\ InsertFailed
    /\ last.ran = <<"create_prescription">> /\ last.newid = "PR_008"
    /\ current_user # None /\ SessionUnchanged
    /\ AllocatorNow(AllocKind) = "PR_008"
    /\ \A i \in 1..Len(db.prescriptions) : db.prescriptions[i].prescription_id # "PR_008"

\* the admissions of the patient typed in the step just taken that are in
\* the department of the nurse who was logged in and have no discharge_date
ActiveInDepartment ==
    {i \in 1..Len(db.admissions) :
        /\ FieldIs(db.admissions[i], "patient_id", TypedPatient)
        /\ FieldIs(db.admissions[i], "department", last.pre_user.department)
        /\ ~Has(db.admissions[i], "discharge_date")}

\* the prescriptions of an admission
PrescriptionsOf(admission_id) ==
    SelectSeq(db.prescriptions, LAMBDA x : FieldIs(x, "admission_id", admission_id))

\* C21: record_administration by a nurse inserts an administration event
\* only if the patient has an admission in the nurse's department with no
\* discharge_date and the selected prescription is one of that admission;
\* with no such admission, with no prescription of it, or with a selection
\* out of range, nothing is inserted.
C21_OnlyForActiveAdmission ==
    (last.pre_user # None /\ last.pre_type = "nurse"
     /\ last.ran = <<"record_administration">>) =>
        LET event == db.medication_administration[Len(db.medication_administration)]
            sel == Strip(last.in.selection)
        IN  /\ last.inserts = 1 =>
                /\ event.patient_id = TypedPatient
                /\ \E i \in ActiveInDepartment :
                      \E k \in 1..Len(PrescriptionsOf(db.admissions[i].admission_id)) :
                          PrescriptionsOf(db.admissions[i].admission_id)[k].prescription_id
                              = event.prescription_id
            /\ (\/ ActiveInDepartment = {}
                \/ \A i \in ActiveInDepartment :
                      \/ PrescriptionsOf(db.admissions[i].admission_id) = <<>>
                      \/ ~IsDigit(sel)
                      \/ ParseInt(sel) < 1
                      \/ ParseInt(sel) > Len(PrescriptionsOf(db.admissions[i].admission_id)))
               => last.inserts = 0

\* the nurse of Cardiology recorded the second prescription of PAT_001's
\* active Cardiology admission
C21_RecordedForActive ==
    /\ last.pre_type = "nurse" /\ last.ran = <<"record_administration">>
    /\ last.inserts = 1
    /\ TypedPatient = "PAT_001" /\ Strip(last.in.selection) = "2"
    /\ ActiveInDepartment # {}
    /\ db.medication_administration[Len(db.medication_administration)].prescription_id
          = PrescriptionsOf("ADM_001")[2].prescription_id

\* the nurse's medication list was shown in the step just taken
ListShown ==
    /\ last.pre_user # None /\ last.pre_type = "nurse"
    /\ last.ran = <<"medication_list">>
    /\ last.result \in {"ok", "not_found"}

\* the admissions in the department of the nurse who was logged in that have
\* no discharge_date
ActiveOfDepartment ==
    {i \in 1..Len(db.admissions) :
        /\ FieldIs(db.admissions[i], "department", last.pre_user.department)
        /\ ~Has(db.admissions[i], "discharge_date")}

\* an administration event for the patient and the prescription carries the
\* day of the step just taken
GivenOnTheDay(patient_id, prescription_id) ==
    \E k \in 1..Len(db.medication_administration) :
        /\ db.medication_administration[k].patient_id = patient_id
        /\ db.medication_administration[k].prescription_id = prescription_id
        /\ db.medication_administration[k].timestamp = last.at

\* the list reports every prescription of the admission, Given when it was
\* given on the day and Pending when not
ReportedByDay(adm) ==
    \A k \in 1..Len(PrescriptionsOf(adm.admission_id)) :
        LET rx == PrescriptionsOf(adm.admission_id)[k]
            row == <<rx.prescription_id,
                     IF GivenOnTheDay(adm.patient_id, rx.prescription_id)
                     THEN "Given" ELSE "Pending">>
        IN  \E n \in 1..Len(last.out) : last.out[n] = row

\* C22, as stated: the medication list reports a prescription of an
\* admission of the nurse's department with no discharge_date as Given
\* exactly when an administration event for the same patient and
\* prescription with a timestamp of the current day exists, and as Pending
\* otherwise.
C22_GivenIffGivenToday ==
    ListShown => \A i \in ActiveOfDepartment : ReportedByDay(db.admissions[i])

\* C22, amended: the same for the admissions whose admission_date is not
\* in the future; so once an administration of P is recorded, the lists of
\* that day report P as Given.
C22_GivenIffGivenTodayAdmitted ==
    ListShown =>
        /\ \A i \in ActiveOfDepartment :
              (Has(db.admissions[i], "admission_date")
               /\ db.admissions[i].admission_date <= last.at)
              => ReportedByDay(db.admissions[i])
        /\ \A n \in 1..Len(last.out) :
              last.out[n][2] = "Given" <=>
                  \E i \in ActiveOfDepartment :
                      GivenOnTheDay(db.admissions[i].patient_id, last.out[n][1])

\* on day 1 the list reports as Given a prescription whose administration
\* was recorded that day, and as Pending one given only the day before
C22_GivenAfterRecord ==
    /\ ListShown /\ last.at = 1 /\ writes >= 1
    /\ \E n \in 1..Len(last.out) :
          /\ last.out[n][2] = "Given"
          /\ GivenOnTheDay("PAT_001", last.out[n][1])
    /\ \E n \in 1..Len(last.out) : last.out[n] = <<"PR_007", "Pending">>

\* the document the step just taken wrote into a collection
Written(coll) == db[coll][Len(db[coll])]

\* C23: every record a workflow writes carries the identity logged in at
\* the moment of the write: a prescription the doctor's name, a note the
\* doctor's id and name, an administration event the nurse's id and name,
\* vitals the nurse's name; that identity is still the one logged in after
\* the write.
C23_StampedWithSessionIdentity ==
    last.inserts = 1 =>
        LET c == last.ran[Len(last.ran)]
        IN  /\ last.pre_user # None
            /\ current_user = last.pre_user
            /\ c = "create_prescription" =>
                  Written("prescriptions").prescribed_by = last.pre_user.name
            /\ c = "add_note" =>
                  /\ Written("note_events").doctor_id = last.pre_user.id
                  /\ Written("note_events").doctor_name = last.pre_user.name
            /\ c = "record_administration" =>
                  /\ Written("medication_administration").staff_id = last.pre_user.id
                  /\ Written("medication_administration").staff_name = last.pre_user.name
            /\ c = "patient_vitals" =>
                  Written("patient_vitals").recorded_by = last.pre_user.name

\* after a doctor had written and logged out, the nurse's administration
\* event carries the nurse's id
C23_NurseStampedAfterDoctor ==
    /\ last.inserts = 1 /\ last.ran = <<"record_administration">>
    /\ Len(db.prescriptions) > Len(AgedStore.prescriptions)
    /\ Written("medication_administration").staff_id = "NUR_001"
    /\ current_user # None /\ current_user.id = "NUR_001"

\* a write workflow ran for a user of its role in the step just taken
WriteRan(c) ==
    /\ last.pre_user # None
    /\ last.ran = <<c>>
    /\ c \in {"create_prescription", "add_note", "record_administration",
              "patient_vitals"}

\* the patient id typed for the workflow does not start with PAT_
PatientIdMalformed(c) ==
    /\ WriteRan(c)
    /\ c \in {"create_prescription", "record_administration", "patient_vitals"}
    /\ ~StartsWith(TypedPatient, "PAT_")

\* the admission id typed for the workflow does not start with ADM_; for
\* create_prescription it is asked for only after the patient was found
AdmissionIdMalformed(c) ==
    /\ WriteRan(c)
    /\ \/ c = "add_note"
       \/ c = "create_prescription" /\ StartsWith(TypedPatient, "PAT_")
          /\ PatientExists(TypedPatient)
    /\ ~StartsWith(TypedAdmission, "ADM_")

\* C24, as stated: a write command whose patient id does not start with
\* PAT_, or whose admission id does not start with ADM_, is rejected before
\* any store lookup, allocates no identifier and inserts nothing.
C24_MalformedRejectedBeforeLookup ==
    \A c \in Executors :
        (PatientIdMalformed(c) \/ AdmissionIdMalformed(c)) =>
            /\ last.result = "invalid"
            /\ last.lookups = 0
            /\ last.newid = "" /\ last.inserts = 0

\* C24, amended: such a command is rejected as soon as the identifier is
\* read, allocates no identifier and inserts nothing, and no store lookup
\* follows the identifier; the only lookup made at all is that of the
\* patient in create_prescription, which precedes the admission id.
C24_MalformedRejectedAtOnce ==
    \A c \in Executors :
        (PatientIdMalformed(c) \/ AdmissionIdMalformed(c)) =>
            /\ last.result = "invalid"
            /\ last.lookups =
                  (IF c = "create_prescription" /\ StartsWith(TypedPatient, "PAT_")
                   THEN 1 ELSE 0)
            /\ last.newid = "" /\ last.inserts = 0

\* a prescription for an existing patient was refused for its admission id
\* XYZ, after the one lookup of the patient
C24_BadAdmissionIdRefused ==
    /\ AdmissionIdMalformed("create_prescription")
    /\ TypedAdmission = "XYZ"
    /\ last.result = "invalid" /\ last.lookups = 1
    /\ last.newid = "" /\ last.inserts = 0

\* the session's identity changes in this step only from nobody to a user,
\* by a successful login, or from a user to nobody, by a logout (typed, or
\* made by the exit)
IdentityChangeAllowed ==
    current_user' # current_user =>
        \/ /\ current_user = None /\ current_user' # None
           /\ last'.branch = "login" /\ last'.result = "ok"
        \/ /\ current_user # None /\ current_user' = None
           /\ last'.branch \in {"logout", "farewell", "interrupt"}

\* C25: while a user is logged in, a login attempt is refused before any
\* credentials are read and leaves the user and the role as they were; the
\* logged-in identity changes only by a logout, and after it by a
\* successful login.
C25_OneIdentity ==
    /\ []((last.branch = "login" /\ last.pre_user # None) =>
            /\ last.result = "already_logged_in"
            /\ last.in = NoInput /\ last.lookups = 0
            /\ SessionUnchanged)
    /\ [][IdentityChangeAllowed]_vars

\* the nurse, logged in, typed login and was refused; she is still logged in
C25_SecondLoginRefused ==
    /\ last.branch = "login" /\ last.pre_user # None
    /\ last.pre_user.id = "NUR_001"
    /\ last.result = "already_logged_in"
    /\ current_user = last.pre_user /\ user_type = "nurse"

\* the collection a write command inserts into; for add_staff the one it
\* forms from the staff type that was typed
WriteTarget(c, in) ==
    CASE c = "create_prescription" -> "prescriptions"
      [] c = "add_note" -> "note_events"
      [] c = "record_administration" -> "medication_administration"
      [] c = "add_staff" -> Lower(Strip(in.staff_type)) \o "s"

\* this step added one document at the end of collection c and left every
\* other collection as it was
OneInsertInto(c) ==
    /\ Len(db'[c]) = Len(db[c]) + 1
    /\ SubSeq(db'[c], 1, Len(db[c])) = db[c]
    /\ \A o \in Collections \ {c} : db'[o] = db[o]

\* C26: a successful create_prescription, add_note, record_administration
\* or add_staff inserts exactly one document, into prescriptions,
\* note_events, medication_administration or the collection of the chosen
\* staff type, and leaves all other collections unchanged.
C26_OneInsertOneCollection ==
    [][\A c \in {"create_prescription", "add_note", "record_administration",
                 "add_staff"} :
          (last = AtPrompt /\ last'.ran = <<c>> /\ last'.result = "ok")
          => OneInsertInto(WriteTarget(c, last'.in))]_vars

\* a nurse was added: the nurses collection holds one more document and
\* every other collection is what the store started with
C26_NurseAddedAlone ==
    /\ last.ran = <<"add_staff">> /\ last.result = "ok"
    /\ Lower(Strip(last.in.staff_type)) = "nurse"
    /\ Len(db.nurses) = Len(AgedStore.nurses) + 1
    /\ \A o \in Collections \ {"nurses"} : db[o] = AgedStore[o]

\* credentials that pass the prefix check and miss the lookup on the store
\* as it is: the id is unknown, the name is not that of the id, or both
LoginMiss(in) ==
    LET staff_id == Upper(Strip(in.staff_id))
        name == Title(Strip(in.name))
    IN  /\ staff_id # "" /\ name # ""
        /\ PrefixRole(staff_id) # None
        /\ find_staff(db, PrefixRole(staff_id), staff_id, name) = None

\* what the caller sees of a login with these credentials, nobody being
\* logged in: the answer, who is logged in afterwards, and the store calls
LoginOutcome(in) ==
    LET s == handle_login(None, user_type, db, in)
    IN  <<s.result, s.cu, s.lookups>>

\* C27: a login that passes the prefix check and misses the lookup has the
\* same outcome whichever field is wrong: authentication failed, nobody
\* logged in, one lookup; two attempts that differ only in the wrong field
\* cannot be told apart.
C27_MissesIndistinguishable ==
    /\ (last.branch = "login" /\ last.pre_user = None /\ LoginMiss(last.in)) =>
          /\ last.result = "auth_failed"
          /\ current_user = None
          /\ last.lookups = 1
    /\ (running /\ last = AtPrompt /\ current_user = None) =>
          Cardinality({LoginOutcome(a) : a \in {x \in LoginInputs : LoginMiss(x)}}) = 1

\* the id of an existing doctor was typed with a name that is not hers:
\* authentication failed, the same as for the unknown id DOC_009
C27_WrongNameFailed ==
    /\ last.branch = "login" /\ last.pre_user = None
    /\ TypedStaffId = "DOC_001" /\ TypedName = "Ann Lee"
    /\ last.result = "auth_failed" /\ current_user = None
    /\ LoginMiss([NoInput EXCEPT !.staff_id = "DOC_009", !.name = "jane doe"])
    /\ LoginOutcome([NoInput EXCEPT !.staff_id = "DOC_009", !.name = "jane doe"])
          = <<last.result, current_user, last.lookups>>

\* add_staff succeeded in the step just taken
StaffAdded == last.ran = <<"add_staff">> /\ last.result = "ok"

\* the login of the member just added, with the identifier add_staff
\* printed and the name that was typed, after a logout
LoginOfAdded ==
    handle_login(None, NoType, db,
                 [NoInput EXCEPT !.staff_id = last.newid, !.name = last.in.name])

\* C28: a staff member added by add_staff, of type doctor, nurse or admin,
\* can log in afterwards with the identifier add_staff gave and the name
\* typed, and is then logged in with the role of that staff type.
C28_AddedStaffCanLogin ==
    StaffAdded =>
        /\ LoginOfAdded.result = "ok"
        /\ LoginOfAdded.cu # None
        /\ LoginOfAdded.ut =
              (IF Lower(Strip(last.in.staff_type)) = "admin" THEN "admin"
               ELSE Lower(Strip(last.in.staff_type)))

\* a nurse was added and can log in as a nurse
C28_AddedNurseCanLogin ==
    /\ StaffAdded /\ Lower(Strip(last.in.staff_type)) = "nurse"
    /\ LoginOfAdded.result = "ok" /\ LoginOfAdded.ut = "nurse"
    /\ LoginOfAdded.cu.id = last.newid

\* C29: in every reachable state the stored role is None exactly when
\* nobody is logged in, and is the role of the logged-in user when somebody
\* is; a failed login leaves no role behind.
C29_RoleAgreesWithUser ==
    /\ user_type = NoType <=> current_user = None
    /\ current_user # None => user_type = current_user.type

\* after the nurse's login the stored role is the nurse's, and after her
\* logout both fields are None again
C29_AgreeAfterLogout ==
    /\ last.branch = "logout" /\ last.pre_user # None
    /\ last.pre_type = last.pre_user.type /\ last.pre_type = "nurse"
    /\ current_user = None /\ user_type = NoType

\* the role that may write into a collection; "" for the collections no
\* workflow writes
WriterOf(c) ==
    CASE c \in {"prescriptions", "note_events"} -> "doctor"
      [] c \in {"medication_administration", "patient_vitals"} -> "nurse"
      [] c \in {"doctors", "nurses", "administrators", "admins"} -> "admin"
      [] OTHER -> ""

\* C30: while nobody is logged in nothing is inserted, whatever is typed;
\* every insert happens with a user logged in, into prescriptions and
\* note_events only with the role doctor, into medication_administration
\* and patient_vitals only with the role nurse, into the staff collections
\* only with the role admin.
C30_InsertsOnlyByRole ==
    [][\A c \in Collections :
          db'[c] # db[c] =>
              /\ current_user # None
              /\ current_user.type = WriterOf(c)
              /\ user_type = WriterOf(c)]_vars

\* after a failed login had left the role doctor behind, a line asking for
\* a new prescription was typed with nobody logged in: nothing was inserted
C30_AnonymousPhraseRefused ==
    /\ last.op = "say" /\ last.text = "new prescription"
    /\ last.pre_user = None /\ last.pre_type = "doctor"
    /\ last.inserts = 0 /\ db = AgedStore
    /\ current_user = None

(***************************************************************************)
(* The round of a prescription: the doctor creates it, the nurse lists     *)
(* and administers it, and days pass.                                      *)
(***************************************************************************)
\* the fresh store with PAT_001 admitted to Cardiology twice and discharged
\* from neither: ADM_000 is the earlier admission
ReadmittedStore ==
    [FreshStore EXCEPT
        !.admissions = <<[admission_id |-> "ADM_000", patient_id |-> "PAT_001",
                          department |-> "Cardiology", doctor |-> "Jane Doe",
                          admission_date |-> 0]>> \o @]

RoundLines ==
    {"login", "logout", "new prescription", "medication list", "record medication"}

InitRound ==
    /\ current_user = None
    /\ user_type = NoType
    /\ db \in {FreshStore, WardStore, ReadmittedStore}
    /\ running = TRUE
    /\ now = 0
    /\ writes = 0
    /\ last = AtPrompt
    /\ peer = NoPeers

NextRound ==
    \/ \E raw \in RoundLines : Login(raw)
    \/ \E raw \in RoundLines : Logout(raw)
    \/ \E raw \in RoundLines : Process(raw)
    \/ Continue
    \/ Tick

SpecRound == InitRound /\ [][NextRound]_vars

\* the session a nurse of the store has after logging in
NurseSession(n) ==
    handle_login(None, NoType, db,
                 [NoInput EXCEPT !.staff_id = n.nurse_id, !.name = n.name]).cu

\* the admissions a prescription was created for that have a department, no
\* discharge_date and an admission_date not after the day of the creation
ActiveWhenPrescribed(rx) ==
    {i \in 1..Len(db.admissions) :
        /\ FieldIs(db.admissions[i], "admission_id", rx.admission_id)
        /\ FieldIs(db.admissions[i], "patient_id", rx.patient_id)
        /\ Has(db.admissions[i], "department")
        /\ ~Has(db.admissions[i], "discharge_date")
        /\ Has(db.admissions[i], "admission_date")
        /\ db.admissions[i].admission_date <= rx.prescribed_at}

\* the nurses of a department
NursesOf(department) ==
    {k \in 1..Len(db.nurses) :
        /\ FieldIs(db.nurses[k], "department", department)
        /\ NurseSession(db.nurses[k]) # None}

\* no administration event of the prescription is in the store
NeverAdministered(rx) ==
    \A e \in 1..Len(db.medication_administration) :
        ~(/\ FieldIs(db.medication_administration[e], "patient_id", rx.patient_id)
          /\ FieldIs(db.medication_administration[e], "prescription_id",
                     rx.prescription_id))

\* the medication list of the nurse, asked for now, has the prescription,
\* and has it as Pending while it was never administered
ListedFor(rx, nurse) ==
    LET out == cmd_medication_list(NurseSession(nurse), "nurse", db, now, NoInput).out
    IN  /\ \E n \in 1..Len(out) : out[n][1] = rx.prescription_id
        /\ NeverAdministered(rx) =>
              \A n \in 1..Len(out) :
                  out[n][1] = rx.prescription_id => out[n][2] = "Pending"

\* record_administration by the nurse for the prescription's patient, asked
\* for now, has a number to select that records the prescription
OfferedTo(rx, nurse) ==
    \E sel \in 1..Len(db.prescriptions) :
        LET r == cmd_record_administration(NurseSession(nurse), "nurse", db, now,
                     [NoInput EXCEPT !.patient_id = rx.patient_id,
                                     !.selection = ZeroPad(sel, 1)])
            events == r.db.medication_administration
        IN  /\ Len(events) = Len(db.medication_administration) + 1
            /\ events[Len(events)].prescription_id = rx.prescription_id

\* C31: a prescription created for an admission of department D that has
\* no discharge_date and an admission_date not in the future is, in every
\* later state, listed in the medication list of every nurse of department
\* D, as Pending until it is administered, and offered for selection in
\* record_administration for its patient.
C31_ListedAndOffered ==
    \A k \in 1..Len(db.prescriptions) :
        \A i \in ActiveWhenPrescribed(db.prescriptions[k]) :
            \A n \in NursesOf(db.admissions[i].department) :
                /\ ListedFor(db.prescriptions[k], db.nurses[n])
                /\ OfferedTo(db.prescriptions[k], db.nurses[n])

\* the doctor created a prescription for ADM_001 of PAT_001, who has the
\* earlier admission ADM_000 in the same department: the nurse's list has
\* it as Pending, and record_administration for PAT_001 does not offer it
C31_ListedNotOffered ==
    /\ last.ran = <<"create_prescription">> /\ last.inserts = 1
    /\ last.pre_type = "doctor"
    /\ db.admissions[1].admission_id = "ADM_000"
    /\ LET rx == db.prescriptions[Len(db.prescriptions)]
       IN  /\ rx.admission_id = "ADM_001"
           /\ ActiveWhenPrescribed(rx) # {}
           /\ NursesOf("Cardiology") # {}
           /\ \A n \in NursesOf("Cardiology") :
                 ListedFor(rx, db.nurses[n]) /\ ~OfferedTo(rx, db.nurses[n])

====
